---- MODULE Spec2Model ----
(***************************************************************************)
(* GM8Emulator (PSP port): the image atlas compiler and draw command       *)
(* renderer of src/src/Renderer.cpp and the asset loader GameLoad of       *)
(* src/src/Collision.hpp.                                                  *)
(*                                                                         *)
(* Specifications:                                                         *)
(*   SpecCompile  RMakeImage submissions followed by one call _Compile(0), *)
(*                with the backend limits _maxTextureSize and _maxTextures *)
(*                drawn from small sets (the queries that set them, at     *)
(*                Renderer.cpp:197-198, are commented out in this port, so *)
(*                0, the zero-initialised value, is among the values).     *)
(*   SpecRender   the renderer's entry points called in any order from the *)
(*                state RInit leaves.                                      *)
(*   SpecLoad     GameLoad, one step per block of the stream.              *)
(***************************************************************************)
EXTENDS Integers, Sequences, FiniteSets, TLC

\* ------------------------------------------------------------------ bounds
\* Most draw commands of one frame.
MaxCommands == 3
\* Most draw commands of one frame when the parts drawn are arbitrary.
MaxPartialCommands == 1
\* Longest plaintext of a compressed block.
MaxPlain == 3
\* Largest capacity of the output buffer InflateBlock is given.
MaxCapacity == 2
\* Longest region DecryptData is run on.
MaxRegion == 3
\* Most bytes of file data in the data block of an extension.
MaxData == 3
\* Most whole dwords in the encrypted part of a stream Decrypt81 is run on.
MaxGroups == 2
\* Most calls of InflateBlock on the decode buffer, and most byte ranges the
\* loader keeps.
MaxBlocks == 2
MaxKept == 2
\* Most frames main runs.
MaxFrames == 10
\* Most turns of main's waiting loop after one frame.
MaxSpins == 10
\* Largest width/height of a submitted image.
MaxDim == 2
\* Longest list of images of arbitrary size.
MaxImages == 2
\* Longest list of 1x1 images (enough to ask for a 33rd and a 34th atlas).
ManyImages == 34
\* Most calls of RMakeGameWindow that are recorded.
MaxWindowCalls == 2
\* records a game file declares, over all of its sections
MaxRecords == 2

\* --------------------------------------------------------------- constants
\* RAtlas _atlases[32]
NumAtlases == 32
\* A field that has not been written since the object was created.
Uninit == -1

Dims == 0..MaxDim
Origins == {0}
\* Values of _maxTextureSize (GL_MAX_TEXTURE_SIZE) and _maxTextures
\* (GL_MAX_TEXTURE_IMAGE_UNITS); 0 is what the globals hold in this port.
TextureSizes == 0..MaxDim
TextureUnits == {0, 1, 32}

Max(a, b) == IF a >= b THEN a ELSE b

VARIABLES
    \* Renderer.cpp globals
    _contextSet, _preImages, _atlasImages, _atlases, boundAtlas,
    _tallest, _widest, _pixelCount, _maxTextures, _maxTextureSize,
    \* the process has ended: it called abort(), or an access outside an
    \* object stopped it
    aborted,
    \* results of the calls of RMakeGameWindow, in order
    windowReturns,
    \* Len(_atlasImages) when RMakeGameWindow first returned true, else Uninit
    imagesAtWindow,
    \* _Compile: "idle" (not called), "running" (inside a call), "returned"
    cpc,
    \* _Compile's parameter at the current recursion depth
    firstAtlas,
    \* value returned by the outermost _Compile
    compileResult,
    \* number of calls _Compile() made from outside _Compile
    compileCalls,
    \* every index s for which _atlases[s] has been written
    slotsWritten,
    \* GameLoad: the statement it has reached
    lpc,
    \* "head" before a section's count is read, "records" inside its loop
    phase,
    \* value returned by GameLoad
    loadResult,
    \* the heap blocks GameLoad's pointers name, and the misuses so far
    mem,
    \* dataLength, the capacity of the reusable decode buffer
    dataLength,
    \* count, the loop counter of the section being read
    count,
    \* the count each section declared in the stream
    declared,
    \* the blocks of each section that InflateBlock has consumed
    consumed,
    \* AssetManager: the records of each section, in the order added
    store,
    \* number of code handles CodeManager and CodeActionManager have issued
    nHandles,
    \* the calls CodeManager::Compile / CodeActionManager::Compile, in order
    compileLog,
    \* some InflateBlock call of this load has returned false
    inflateFailed,
    \* the RMakeImage calls of the latest pass of a section's loop, each with
    \* the pixel-data length the stream declared for it
    lastSubmit,
    \* records that may still be declared (bounds the explored streams)
    budget,
    \* the game file GameLoad was given
    file,
    \* offsets of the raw file buffer that were read at or beyond its size
    oob,
    \* version, GameLoad's local: 0, 800 or 810
    version,
    \* the calls of Decrypt81 so far
    decrypts,
    \* main: the call it is about to make, "wait" inside the loop that waits
    \* for the frame's time to pass, "exit" after its return
    mpc,
    \* what GameLoad and GameStart returned to main ("none" before the call)
    loaded, started,
    \* number of calls of GameTerminate and of GameFrame made by main
    terminated, frames,
    \* turns of the waiting loop since the latest frame
    spins,
    \* the value main returned
    exitCode,
    \* std::vector<RDrawCommand> _drawCommands
    _drawCommands,
    \* the commands appended since the latest RStartFrame
    appended,
    \* the drawing function called last, and whether it was given a partX at
    \* or beyond the image's width, a partY at or beyond its height
    lastCall,
    \* the backend calls of the latest RStartFrame, in order
    backend,
    \* <<atlas id of the batch issued last>>, <<>> before the first batch
    issued,
    \* the latest RRenderFrame since the latest RStartFrame: the commands it
    \* went through, `appended' and `issued' at its start, its batches, and
    \* boundAtlas at its end
    rendered,
    \* the latest run of InflateBlock on a pair of blocks
    inflated,
    \* the latest run of DecryptData
    cipher,
    \* the byte table of an extension and the data block decrypted with it
    extension,
    \* the latest run of Decrypt81
    xored,
    \* the latest run of the second pass of DecryptData on a region that
    \* starts anywhere in the stream
    partner,
    \* the heap with the decode buffer of GameLoad and the bytes the loader
    \* has kept from it
    retained

rvars == <<_contextSet, _preImages, _atlasImages, _atlases, boundAtlas,
           _tallest, _widest, _pixelCount, _maxTextures, _maxTextureSize,
           aborted, windowReturns, imagesAtWindow>>
cvars == <<cpc, firstAtlas, compileResult, compileCalls, slotsWritten>>
lvars == <<lpc, phase, loadResult, mem, dataLength, count, declared, consumed,
           store, nHandles, compileLog, inflateFailed, lastSubmit, budget>>
fvars == <<file, oob, version, decrypts>>
\* the variables no action of the renderer or of the loader's sections writes
mvars == <<mpc, loaded, started, terminated, frames, spins, exitCode>>
dvars == <<_drawCommands, appended, lastCall, backend, issued, rendered>>
pvars == <<inflated, cipher, extension, xored, partner, retained>>
nvars == <<mvars, dvars, pvars>>
xvars == <<fvars, nvars>>
vars == <<rvars, cvars, lvars, xvars>>

\* ---------------------------------------------------------------- RInit
EmptyAtlas == [w |-> Uninit, h |-> Uninit]

\* RInit, on top of the zero-initialisation of the globals it leaves alone.
RInit ==
    /\ _contextSet = FALSE
    /\ _tallest = 0
    /\ _widest = 0
    /\ _pixelCount = 0
    /\ boundAtlas = -1
    /\ _preImages = <<>>
    /\ _atlasImages = <<>>
    /\ _atlases = [s \in 0..(NumAtlases - 1) |-> EmptyAtlas]
    /\ aborted = FALSE
    /\ windowReturns = <<>>
    /\ imagesAtWindow = Uninit

CompileIdle ==
    /\ cpc = "idle"
    /\ firstAtlas = 0
    /\ compileResult = "none"
    /\ compileCalls = 0
    /\ slotsWritten = {}

\* ------------------------------------------------------------ RMakeImage
\* The guard that bounds the explored lists: any image while the list is
\* short, and 1x1 images up to ManyImages when the list holds nothing else
\* and an atlas has room for one of them only.
WithinBounds(w, h) ==
    \/ Len(_preImages) < MaxImages
    \/ /\ Len(_preImages) < ManyImages
       /\ _maxTextureSize = 1
       /\ w = 1 /\ h = 1
       /\ \A i \in 1..Len(_preImages) : _preImages[i].w = 1 /\ _preImages[i].h = 1

\* if (_contextSet) abort();
RMakeImageAborts == _contextSet

\* The renderer state that RMakeImage writes.
RState == [ai |-> _atlasImages, pi |-> _preImages, t |-> _tallest,
           wd |-> _widest, px |-> _pixelCount]

\* The body of RMakeImage after the check of _contextSet, on the state rs,
\* for the arguments img = [w, h, originX, originY].
MakeImage(rs, img) ==
    LET imgIndex == Len(rs.ai)
        pImg == [w |-> img.w, h |-> img.h, imgIndex |-> imgIndex,
                 x |-> Uninit, y |-> Uninit]
        aImg == [atlasId |-> Uninit, x |-> Uninit, y |-> Uninit,
                 w |-> img.w, h |-> img.h,
                 originX |-> img.originX, originY |-> img.originY]
    IN [ai |-> Append(rs.ai, aImg),
        pi |-> Append(rs.pi, pImg),
        t |-> Max(rs.t, img.w),
        wd |-> Max(rs.wd, img.h),
        \* unsigned 32-bit sum; the sums explored stay far below 2^32
        px |-> rs.px + (img.w * img.h)]

RECURSIVE MakeImages(_, _, _)
MakeImages(rs, imgs, i) ==
    IF i = 0 THEN rs ELSE MakeImage(MakeImages(rs, imgs, i - 1), imgs[i])

\* The calls RMakeImage(imgs[1]), .., RMakeImage(imgs[n]) made in a row:
\* the first aborts the process when _contextSet is set.
RMakeImageCalls(imgs) ==
    IF Len(imgs) = 0
    THEN UNCHANGED rvars
    ELSE IF RMakeImageAborts
    THEN /\ aborted' = TRUE
         /\ UNCHANGED <<_contextSet, _preImages, _atlasImages, _atlases, boundAtlas,
                        _tallest, _widest, _pixelCount, _maxTextures,
                        _maxTextureSize, windowReturns, imagesAtWindow>>
    ELSE LET rs == MakeImages(RState, imgs, Len(imgs))
         IN /\ _atlasImages' = rs.ai
            /\ _preImages' = rs.pi
            /\ _tallest' = rs.t
            /\ _widest' = rs.wd
            /\ _pixelCount' = rs.px
            /\ UNCHANGED <<_contextSet, _atlases, boundAtlas, _maxTextures,
                           _maxTextureSize, aborted, windowReturns, imagesAtWindow>>

Image(w, h, originX, originY) == [w |-> w, h |-> h, originX |-> originX, originY |-> originY]

\* A call of RMakeImage from outside GameLoad.
RMakeImage(w, h, originX, originY) ==
    /\ ~aborted
    /\ cpc = "idle"
    /\ WithinBounds(w, h)
    /\ RMakeImageCalls(<<Image(w, h, originX, originY)>>)
    /\ UNCHANGED <<cvars, lvars, xvars>>

\* ------------------------------------------------------- RMakeGameWindow
\* The body between g2dInit() and "return true" is commented out
\* (Renderer.cpp:158-269): no assignment to _contextSet, no _Compile().
RMakeGameWindow ==
    /\ ~aborted
    /\ cpc = "idle"
    /\ Len(windowReturns) < MaxWindowCalls
    /\ IF _contextSet
       THEN /\ windowReturns' = Append(windowReturns, FALSE)
            /\ UNCHANGED imagesAtWindow
       ELSE /\ windowReturns' = Append(windowReturns, TRUE)
            /\ imagesAtWindow' = IF imagesAtWindow = Uninit
                                 THEN Len(_atlasImages) ELSE imagesAtWindow
    /\ UNCHANGED <<_contextSet, _preImages, _atlasImages, _atlases, boundAtlas,
                   _tallest, _widest, _pixelCount, _maxTextures, _maxTextureSize,
                   aborted>>
    /\ UNCHANGED <<cvars, lvars, xvars>>

\* ------------------------------------------------------------- _Compile
Area(img) == img.w * img.h

\* Placement of one rectangle by the packer.
Skipped == [k |-> "skipped"]
Unpacked == [k |-> "unpacked"]
At(x, y) == [k |-> "packed", x |-> x, y |-> y]

RectsOverlap(ax, ay, aw, ah, bx, by, bw, bh) ==
    /\ ax < bx + bw /\ bx < ax + aw
    /\ ay < by + bh /\ by < ay + ah

\* Positions of a bin of side maxSide at which img lies inside the bin and
\* overlaps none of the rectangles already placed by pl (for imgs[1..Len(pl)]).
FreePositions(imgs, pl, img, maxSide) ==
    { p \in (0..maxSide) \X (0..maxSide) :
        /\ p[1] + img.w <= maxSide
        /\ p[2] + img.h <= maxSide
        /\ \A j \in 1..Len(pl) :
             pl[j].k = "packed" =>
               ~RectsOverlap(p[1], p[2], img.w, img.h,
                             pl[j].x, pl[j].y, imgs[j].w, imgs[j].h) }

RECURSIVE Placements(_, _, _)
Placements(imgs, i, maxSide) ==
    IF i = 0 THEN {<<>>}
    ELSE LET prev == Placements(imgs, i - 1, maxSide)
             img == imgs[i]
         IN IF Area(img) = 0
            THEN { Append(pl, Skipped) : pl \in prev }
            ELSE UNION { { Append(pl, Unpacked) } \cup
                         { Append(pl, At(p[1], p[2])) :
                             p \in FreePositions(imgs, pl, img, maxSide) } :
                         pl \in prev }

\* rectpack2D::find_best_packing as _Compile uses it, by its contract: a
\* rectangle of area 0 gets no callback; every other rectangle is either
\* inserted (report_successful) inside a bin of side max_side without
\* overlapping another inserted one, or reported by report_unsuccessful;
\* a rectangle that fits the empty bin is inserted when no other is.  Which
\* of several rectangles of the same size it inserts is immaterial, so the
\* earlier ones are taken.
FindBestPacking(imgs, maxSide) ==
    { pl \in Placements(imgs, Len(imgs), maxSide) :
        /\ (\E i \in 1..Len(imgs) :
              Area(imgs[i]) > 0 /\ imgs[i].w <= maxSide /\ imgs[i].h <= maxSide)
           => \E i \in 1..Len(imgs) : pl[i].k = "packed"
        /\ \A i, j \in 1..Len(imgs) :
             (i < j /\ imgs[i].w = imgs[j].w /\ imgs[i].h = imgs[j].h
                    /\ pl[j].k = "packed") => pl[i].k = "packed" }

\* root.get_rects_aabb(): the bounding box of the inserted rectangles.
RECURSIVE AabbW(_, _, _)
AabbW(imgs, pl, i) ==
    IF i = 0 THEN 0
    ELSE Max(AabbW(imgs, pl, i - 1),
             IF pl[i].k = "packed" THEN pl[i].x + imgs[i].w ELSE 0)

RECURSIVE AabbH(_, _, _)
AabbH(imgs, pl, i) ==
    IF i = 0 THEN 0
    ELSE Max(AabbH(imgs, pl, i - 1),
             IF pl[i].k = "packed" THEN pl[i].y + imgs[i].h ELSE 0)

\* report_successful: _preImages[index]._x = r.x; _preImages[index]._y = r.y
Reported(imgs, pl) ==
    [i \in 1..Len(imgs) |->
        IF pl[i].k = "packed"
        THEN [imgs[i] EXCEPT !.x = pl[i].x, !.y = pl[i].y]
        ELSE imgs[i]]

\* report_unsuccessful: unpacked.push_back(_preImages[index])
RECURSIVE UnpackedOf(_, _, _)
UnpackedOf(imgs, pl, i) ==
    IF i = 0 THEN <<>>
    ELSE IF pl[i].k = "unpacked"
         THEN Append(UnpackedOf(imgs, pl, i - 1), imgs[i])
         ELSE UnpackedOf(imgs, pl, i - 1)

\* for (RPreImage& img : packed) { aImg.x = img._x; ... aImg.atlasId = firstAtlas; }
RECURSIVE AssignPacked(_, _, _, _, _)
AssignPacked(aimgs, imgs, pl, i, atlas) ==
    IF i = 0 THEN aimgs
    ELSE LET rest == AssignPacked(aimgs, imgs, pl, i - 1, atlas)
             ix == imgs[i].imgIndex + 1
         IN IF pl[i].k = "packed"
            THEN [rest EXCEPT ![ix] = [@ EXCEPT !.x = pl[i].x, !.y = pl[i].y,
                                                !.w = imgs[i].w, !.h = imgs[i].h,
                                                !.atlasId = atlas]]
            ELSE rest

\* SanityFails without the check of _widest.
SanityFails_NoWidest ==
    \/ _tallest > _maxTextureSize
    \/ firstAtlas > _maxTextures

\* The sanity checks at the head of _Compile.
SanityFails ==
    \/ _tallest > _maxTextureSize
    \/ _widest > _maxTextureSize
    \/ firstAtlas > _maxTextures

\* if (_pixelCount == 0) return true;
NothingToPack == _pixelCount = 0

CompileReturn(r) ==
    /\ cpc' = "returned"
    /\ compileResult' = r
    /\ UNCHANGED <<firstAtlas, compileCalls>>

\* The call _Compile() from outside: firstAtlas takes its default 0.
CallCompile ==
    /\ ~aborted
    /\ cpc = "idle"
    /\ cpc' = "running"
    /\ firstAtlas' = 0
    /\ compileCalls' = compileCalls + 1
    /\ UNCHANGED <<compileResult, slotsWritten>>
    /\ UNCHANGED <<rvars, lvars, xvars>>

\* One activation of _Compile(firstAtlas), up to its return or to the
\* recursive call _Compile(firstAtlas + 1).
_Compile ==
    /\ cpc = "running"
    /\ UNCHANGED <<lvars, xvars>>
    /\ IF SanityFails
       THEN /\ CompileReturn("false")
            /\ UNCHANGED <<rvars, slotsWritten>>
       ELSE IF NothingToPack
       THEN /\ CompileReturn("true")
            /\ UNCHANGED <<rvars, slotsWritten>>
       ELSE \E pl \in FindBestPacking(_preImages, _maxTextureSize) :
            \E mallocOk \in BOOLEAN :
              LET n == Len(_preImages)
                  reported == Reported(_preImages, pl)
                  unpacked == UnpackedOf(reported, pl, n)
                  w == AabbW(_preImages, pl, n)
                  h == AabbH(_preImages, pl, n)
              IN IF ~mallocOk
                 THEN \* if (!pixelData) return false;
                      /\ _preImages' = reported
                      /\ CompileReturn("false")
                      /\ UNCHANGED <<_contextSet, _atlasImages, _atlases, boundAtlas,
                                     _tallest, _widest, _pixelCount, _maxTextures,
                                     _maxTextureSize, aborted, windowReturns,
                                     imagesAtWindow, slotsWritten>>
                 ELSE /\ _atlasImages' = AssignPacked(_atlasImages, reported, pl, n, firstAtlas)
                      /\ slotsWritten' = slotsWritten \cup {firstAtlas}
                      /\ IF firstAtlas < NumAtlases
                         THEN /\ _atlases' = [_atlases EXCEPT ![firstAtlas] = [w |-> w, h |-> h]]
                              /\ UNCHANGED boundAtlas
                         ELSE \* a write past the end of _atlases[32]: undefined
                              \* behaviour; boundAtlas is the next global.
                              /\ UNCHANGED _atlases
                              /\ boundAtlas' \in {boundAtlas, w, h}
                      /\ IF Len(unpacked) > 0
                         THEN /\ _preImages' = unpacked
                              /\ firstAtlas' = firstAtlas + 1
                              /\ UNCHANGED <<cpc, compileResult, compileCalls>>
                         ELSE /\ _preImages' = reported
                              /\ CompileReturn("true")
                      /\ UNCHANGED <<_contextSet, _tallest, _widest, _pixelCount,
                                     _maxTextures, _maxTextureSize, aborted,
                                     windowReturns, imagesAtWindow>>

\* ================================================================ GameLoad
\* constexpr unsigned int ZLIB_BUF_START = 65536;
ZLIB_BUF_START == 65536

Min(a, b) == IF a <= b THEN a ELSE b

\* ---------------------------------------------------------- heap blocks
\* The pointers of GameLoad and InflateBlock that own a heap block.  Each is
\* "null" (names no block), "live" (names an allocated block) or "freed"
\* (names a block that has been released).
PtrNames == {"buffer", "data", "loadingData", "imageData", "charTable",
             "inflatedData", "inflatedDataTmp", "d"}

NoBlocks == [ptr |-> [p \in PtrNames |-> "null"], errs |-> {}]

Misuse(m, e) == [m EXCEPT !.errs = @ \cup {e}]

\* p = malloc(..) / new ..[]: a block still named by p alone is lost.
Malloc(m, p) ==
    LET m1 == IF m.ptr[p] = "live" THEN Misuse(m, "leak") ELSE m
    IN [m1 EXCEPT !.ptr[p] = "live"]

\* free(p) / delete[] p; free(NULL) does nothing.
Free(m, p) ==
    CASE m.ptr[p] = "live" -> [m EXCEPT !.ptr[p] = "freed"]
      [] m.ptr[p] = "freed" -> Misuse(m, "double free")
      [] OTHER -> m

\* a read or a write through p
Use(m, p) ==
    CASE m.ptr[p] = "live" -> m
      [] m.ptr[p] = "freed" -> Misuse(m, "use after free")
      [] OTHER -> Misuse(m, "null dereference")

\* dst = src, where src is not used again
Move(m, dst, src) ==
    LET m1 == IF m.ptr[dst] = "live" THEN Misuse(m, "leak") ELSE m
    IN [m1 EXCEPT !.ptr[dst] = m.ptr[src], !.ptr[src] = "null"]

\* The end of the scope of the local pointer p: a block it still names is
\* lost.
EndScope(m, p) ==
    LET m1 == IF m.ptr[p] = "live" THEN Misuse(m, "leak") ELSE m
    IN [m1 EXCEPT !.ptr[p] = "null"]

\* ---------------------------------------------------------- InflateBlock
\* zlib's inflate() on a stream with `remaining` bytes of output left and
\* avail_out = avail: Z_STREAM_END when the rest fits; when it fits exactly,
\* zlib may or may not have seen the end of the stream (exactEnd).
StreamEnds(remaining, avail, exactEnd) ==
    \/ remaining < avail
    \/ remaining = avail /\ exactEnd

\* A return of InflateBlock, which ends the scope of its two pointers.
InflateResult(ok, m, cap, size) ==
    [ok |-> ok, mem |-> EndScope(EndScope(m, "inflatedData"), "inflatedDataTmp"),
     cap |-> cap, size |-> size]

\* "Clean up and exit" of InflateBlock, with a buffer that has grown and
\* keeps the block it replaces.
InflateFinish_KeepOld(m, out, cap, size) ==
    IF size > cap
    THEN InflateResult(TRUE, Move(m, out, "inflatedData"), size, size)
    ELSE InflateResult(TRUE, Free(Use(Use(m, out), "inflatedData"), "inflatedData"), cap, size)

\* "Clean up and exit" of InflateBlock (Collision.hpp:230-244).
InflateFinish(m, out, cap, size) ==
    IF size > cap
    THEN \* free(*pOutBuffer); (*pOutBuffer) = inflatedData;
         InflateResult(TRUE, Move(Free(m, out), out, "inflatedData"), size, size)
    ELSE \* memcpy((*pOutBuffer), inflatedData, ..); free(inflatedData);
         InflateResult(TRUE, Free(Use(Use(m, out), "inflatedData"), "inflatedData"), cap, size)

\* The loop "while (ret != Z_STREAM_END)" of InflateBlock, entered with
\* `size` bytes in inflatedData and `remaining` bytes still to come.
RECURSIVE InflateLoop(_, _, _, _, _, _, _)
InflateLoop(m, out, cap, size, remaining, fail, exactEnd) ==
    LET m1 == Use(m, out)
        got == Min(remaining, cap)
    IN IF fail = "loop"
       THEN \* inflateEnd(&strm); free(inflatedData); return false;
            InflateResult(FALSE, Free(m1, "inflatedData"), cap, 0)
       ELSE LET m2 == Malloc(m1, "inflatedDataTmp")
                m3 == Use(Use(m2, "inflatedData"), out)
                m4 == Move(Free(m3, "inflatedData"), "inflatedData", "inflatedDataTmp")
            IN IF StreamEnds(remaining, cap, exactEnd)
               THEN InflateFinish(m4, out, cap, size + got)
               ELSE InflateLoop(m4, out, cap, size + got, remaining - got, "none", exactEnd)

\* InflateBlock(pStream, pPos, pOutBuffer, pOutBufferSize, pOutSize) on a
\* block that inflates to n bytes, with *pOutBuffer = out of capacity cap.
\* fail names the zlib call that reports an error: "init" (inflateInit),
\* "first" (the first inflate), "loop" (an inflate of the loop) or "none".
\* The result holds the return value, the heap, *pOutBufferSize and *pOutSize.
InflateBlock(m, src, out, cap, n, fail, exactEnd) ==
    LET m1 == Use(m, src)
        m2 == Use(m1, out)
        produced == Min(n, cap)
    IN IF fail = "init" THEN InflateResult(FALSE, m1, cap, 0)
       ELSE IF fail = "first" THEN InflateResult(FALSE, m2, cap, 0)
       ELSE IF StreamEnds(n, cap, exactEnd) THEN InflateResult(TRUE, m2, cap, produced)
       ELSE InflateLoop(Use(Malloc(m2, "inflatedData"), out), out, cap, produced,
                        n - produced, fail, exactEnd)

FailModes == {"none", "init", "first", "loop"}
\* Sizes a block inflates to: small, exactly the initial capacity, one more.
OutSizes == {4, ZLIB_BUF_START, ZLIB_BUF_START + 1}

\* The blocks handed to InflateBlock with an output buffer of capacity cap,
\* one for each way the call can go: exactEnd makes a difference only when
\* n = cap, a failure of the loop only when the loop is entered, and n makes
\* none when inflateInit or the first inflate fails.
InflateCases(cap) ==
    {c \in [n : OutSizes, fail : FailModes, exactEnd : BOOLEAN] :
       /\ c.n # cap => c.exactEnd
       /\ c.fail = "loop" => ~StreamEnds(c.n, cap, c.exactEnd)
       /\ c.fail \in {"init", "first"} => c.n = 4}

\* ------------------------------------------------------------- sections
\* The sections of the stream in the order GameLoad reads them.
Sections == <<"extensions", "triggers", "constants", "sounds", "sprites",
              "backgrounds", "paths", "scripts", "fonts", "timelines", "objects",
              "rooms", "lastids", "includes", "gameinfo", "garbage",
              "roomorder", "compile">>
\* The sections that hold one record per declared count.
CountedSections == {"extensions", "triggers", "constants", "sounds", "sprites",
                    "backgrounds", "paths", "scripts", "fonts", "timelines",
                    "objects", "rooms", "includes"}
\* The sections whose records are compressed one by one and start with the
\* dword that tells whether the record exists.
RecordSections == CountedSections \ {"extensions", "constants"}

SectionIndex(sec) == CHOOSE i \in 1..Len(Sections) : Sections[i] = sec
NextSection(sec) == Sections[SectionIndex(sec) + 1]

\* The state before GameLoad is called.
LoadIdle ==
    /\ lpc = "entry"
    /\ loadResult = "none"
    /\ mem = NoBlocks
    /\ dataLength = 0
    /\ count = 0
    /\ declared = [sec \in CountedSections |-> Uninit]
    /\ consumed = [sec \in CountedSections |-> 0]
    /\ store = [sec \in CountedSections |-> <<>>]
    /\ nHandles = 0
    /\ compileLog = <<>>
    /\ inflateFailed = FALSE
    /\ lastSubmit = <<>>
    /\ phase = "head"
    /\ budget = MaxRecords

\* return r; with the heap as m
LoadReturn(r, m) ==
    /\ lpc' = "done"
    /\ loadResult' = r
    /\ mem' = m

\* free(data); delete[] buffer; return r;
FreeAndReturn(r, m) == LoadReturn(r, Free(Free(m, "data"), "buffer"))

\* ------------------------------------------------------------------ main
\* The state before main's first call.
MainIdle ==
    /\ mpc = "GameInit"
    /\ loaded = "none"
    /\ started = "none"
    /\ terminated = 0
    /\ frames = 0
    /\ spins = 0
    /\ exitCode = Uninit

\* GameTerminate(); return code;
TerminateAndReturn(code) ==
    /\ terminated' = terminated + 1
    /\ exitCode' = code
    /\ mpc' = "exit"

\* GameInit(); (Renderer.cpp:622)
MainInit ==
    /\ mpc = "GameInit"
    /\ mpc' = "GameLoad"
    /\ UNCHANGED <<loaded, started, terminated, frames, spins, exitCode>>
    /\ UNCHANGED <<rvars, cvars, lvars, fvars, dvars, pvars>>

\* if (!GameLoad("game.exe")) { GameTerminate(); return 2; }  the branch
\* that follows a false
LoadFailed_FallsThrough ==
    /\ mpc' = "GameStart"
    /\ UNCHANGED <<terminated, exitCode>>

LoadFailed == TerminateAndReturn(2)

\* Renderer.cpp:626-631, with ok the value GameLoad returns
MainLoad ==
    /\ mpc = "GameLoad"
    /\ \E ok \in BOOLEAN :
         /\ loaded' = IF ok THEN "true" ELSE "false"
         /\ IF ok
            THEN /\ mpc' = "GameStart"
                 /\ UNCHANGED <<terminated, exitCode>>
            ELSE LoadFailed
    /\ UNCHANGED <<started, frames, spins>>
    /\ UNCHANGED <<rvars, cvars, lvars, fvars, dvars, pvars>>

\* Renderer.cpp:640-649, with ok the value GameStart returns
MainStart ==
    /\ mpc = "GameStart"
    /\ \E ok \in BOOLEAN :
         /\ started' = IF ok THEN "true" ELSE "false"
         /\ IF ok
            THEN /\ mpc' = "GameFrame"
                 /\ UNCHANGED <<terminated, exitCode>>
            ELSE TerminateAndReturn(3)
    /\ UNCHANGED <<loaded, frames, spins>>
    /\ UNCHANGED <<rvars, cvars, lvars, fvars, dvars, pvars>>

\* if (!GameFrame()) break;  and after the loop  GameTerminate(); return 0;
\* (Renderer.cpp:660-691), with ok the value GameFrame returns
MainFrame ==
    /\ mpc = "GameFrame"
    /\ frames < MaxFrames
    /\ frames' = frames + 1
    /\ \E ok \in BOOLEAN :
         IF ok
         THEN /\ mpc' = "wait"
              /\ spins' = 0
              /\ UNCHANGED <<terminated, exitCode>>
         ELSE /\ TerminateAndReturn(0)
              /\ UNCHANGED spins
    /\ UNCHANGED <<loaded, started>>
    /\ UNCHANGED <<rvars, cvars, lvars, fvars, dvars, pvars>>

\* One turn of the inner while (true) (Renderer.cpp:678-686): it breaks
\* when waitMus <= 0, that is when the frame's time has passed.
MainWait ==
    /\ mpc = "wait"
    /\ \E passed \in BOOLEAN :
         IF passed
         THEN /\ mpc' = "GameFrame"
              /\ UNCHANGED spins
         ELSE /\ spins < MaxSpins
              /\ spins' = spins + 1
              /\ UNCHANGED mpc
    /\ UNCHANGED <<loaded, started, terminated, frames, exitCode>>
    /\ UNCHANGED <<rvars, cvars, lvars, fvars, dvars, pvars>>

\* ------------------------------------------------- unsigned int, 32 bits
\* An unsigned int is the pair <<high half, low half>> of its 16-bit halves.
Limb == 65536
U32(n) == <<n \div Limb, n % Limb>>
\* a + b and a - b modulo 2^32
Add32(a, b) ==
    LET lo == a[2] + b[2]
        hi == a[1] + b[1] + (lo \div Limb)
    IN <<hi % Limb, lo % Limb>>
Sub32(a, b) ==
    LET lo == a[2] - b[2]
        hi == a[1] - b[1] - (IF lo < 0 THEN 1 ELSE 0)
    IN <<(hi + Limb) % Limb, (lo + Limb) % Limb>>
Lt32(a, b) == a[1] < b[1] \/ (a[1] = b[1] /\ a[2] < b[2])
Le32(a, b) == a = b \/ Lt32(a, b)
\* 0, 1, 2 and 2^32 - 1
Samples32 == {U32(0), U32(1), U32(2), <<Limb - 1, Limb - 1>>}

\* ---------------------------------------------------- RDrawPartialImage
\* The values an atlasId that was never assigned can hold, as the int with
\* the same 32 bits: _Compile is the only code that assigns it (C3).
AtlasIdBits == {-1, 0, 1}

Call(fn, xOut, yOut) == [fn |-> fn, xOut |-> xOut, yOut |-> yOut]

\* The state before the first call of a drawing function.
DrawIdle ==
    /\ _drawCommands = <<>>
    /\ appended = <<>>
    /\ lastCall = Call("none", FALSE, FALSE)
    /\ backend = <<>>
    /\ issued = <<>>
    /\ rendered = [done |-> FALSE]

\* if (partX >= aImg->w) return;  if (partY >= aImg->h) return;
OutsideImage_XOnly(aImg, partX, partY) == Le32(U32(aImg.w), partX)

OutsideImage(aImg, partX, partY) ==
    \/ Le32(U32(aImg.w), partX)
    \/ Le32(U32(aImg.h), partY)

\* if (partX + partW > aImg->w) partW = aImg->w - partX;
Clamp(size, part, len) ==
    IF Lt32(U32(size), Add32(part, len)) THEN Sub32(U32(size), part) ELSE len

\* RDrawPartialImage for the image ix (1-based here): the command it
\* appends, if any.  id is what the read of aImg->atlasId gives.
PartialCommand(ix, partX, partY, partW, partH, id) ==
    LET aImg == _atlasImages[ix]
    IN IF OutsideImage(aImg, partX, partY)
       THEN <<>>
       ELSE <<[imageIndex |-> ix - 1,
               atlasId |-> id,
               partX |-> partX,
               partY |-> partY,
               partW |-> Clamp(aImg.w, partX, partW),
               partH |-> Clamp(aImg.h, partY, partH)]>>

\* The effect of a call of RDrawPartialImage on the renderer.  The atlasId
\* of an image is read as stored, or is any value when it was never
\* assigned; &_atlases[atlasId] outside the 32 slots is then read, which
\* ends the process or gives garbage for the atlas size.
DrawCall(ix, partX, partY, partW, partH) ==
    /\ ~aborted
    /\ ix \in 1..Len(_atlasImages)
    /\ \E id \in (IF _atlasImages[ix].atlasId = Uninit
                  THEN AtlasIdBits ELSE {_atlasImages[ix].atlasId}) :
       \E crash \in (IF id \in 0..(NumAtlases - 1) THEN {FALSE} ELSE BOOLEAN) :
         LET c == PartialCommand(ix, partX, partY, partW, partH, id)
         IN IF crash /\ c # <<>>
            THEN /\ aborted' = TRUE
                 /\ UNCHANGED <<_drawCommands, appended>>
            ELSE /\ _drawCommands' = _drawCommands \o c
                 /\ appended' = appended \o c
                 /\ UNCHANGED aborted
    /\ UNCHANGED <<_contextSet, _preImages, _atlasImages, _atlases, boundAtlas,
                   _tallest, _widest, _pixelCount, _maxTextures,
                   _maxTextureSize, windowReturns, imagesAtWindow>>
    /\ UNCHANGED <<backend, issued, rendered>>
    /\ UNCHANGED <<cvars, lvars, fvars, mvars, pvars>>

RDrawPartialImage(ix, partX, partY, partW, partH) ==
    /\ Len(_drawCommands) < MaxPartialCommands
    /\ ix \in 1..Len(_atlasImages)
    /\ lastCall' = Call("RDrawPartialImage",
                        Le32(U32(_atlasImages[ix].w), partX),
                        Le32(U32(_atlasImages[ix].h), partY))
    /\ DrawCall(ix, partX, partY, partW, partH)

\* RDrawPartialImage(ix, .., 0, 0, r->w, r->h)
RDrawImage(ix) ==
    /\ Len(_drawCommands) < MaxCommands
    /\ ix \in 1..Len(_atlasImages)
    /\ lastCall' = Call("RDrawImage", FALSE, FALSE)
    /\ DrawCall(ix, U32(0), U32(0), U32(_atlasImages[ix].w), U32(_atlasImages[ix].h))

\* ------------------------------------------------------------ RStartFrame
\* The calls RStartFrame makes to the backend, in order.
StartFrameCalls ==
    <<[op |-> "g2dClear", colour |-> "_colourOutsideRoom"],
      [op |-> "g2dSetScissor", colour |-> ""],
      [op |-> "g2dClear", colour |-> "_roomBGColour"],
      [op |-> "g2dSetScissor", colour |-> ""]>>

\* _drawCommands.clear();
Cleared_Kept(cmds) == cmds

Cleared(cmds) == <<>>

RStartFrame ==
    /\ ~aborted
    /\ backend' = StartFrameCalls
    /\ _drawCommands' = Cleared(_drawCommands)
    /\ appended' = <<>>
    /\ rendered' = [done |-> FALSE]
    /\ lastCall' = Call("RStartFrame", FALSE, FALSE)
    /\ UNCHANGED issued
    /\ UNCHANGED <<rvars, cvars, lvars, fvars, mvars, pvars>>

\* ----------------------------------------------------------- RRenderFrame
\* toDraw: the commands from position first on (counting from i) that have
\* the atlas id of the command at first.
ToDraw_None(cmds, first, i) == 0

ToDraw_One(cmds, first, i) == 1

RECURSIVE ToDraw(_, _, _)
ToDraw(cmds, first, i) ==
    IF i > Len(cmds) \/ cmds[i].atlasId # cmds[first].atlasId
    THEN 0
    ELSE 1 + ToDraw(cmds, first, i + 1)

\* The while (drawn < _drawCommands.size()) loop from `drawn' on, with
\* boundAtlas = bound: the batches it issues, each with the position of
\* its first command, its length and whether the atlas was bound for it,
\* and boundAtlas at the end.
RECURSIVE RenderLoop(_, _, _, _)
RenderLoop(cmds, drawn, bound, log) ==
    IF drawn >= Len(cmds)
    THEN [bound |-> bound, batches |-> log]
    ELSE LET toDraw == ToDraw(cmds, drawn + 1, drawn + 1)
             atlasId == cmds[drawn + 1].atlasId
             bind == bound # atlasId
         IN RenderLoop(cmds, drawn + toDraw, IF bind THEN atlasId ELSE bound,
                       Append(log, [drawn |-> drawn, toDraw |-> toDraw,
                                    atlasId |-> atlasId, bind |-> bind]))

RRenderFrame ==
    /\ ~aborted
    /\ LET r == RenderLoop(_drawCommands, 0, boundAtlas, <<>>)
       IN /\ boundAtlas' = r.bound
          /\ rendered' = [done |-> TRUE, cmds |-> _drawCommands, since |-> appended,
                          before |-> issued, batches |-> r.batches,
                          after |-> r.bound]
          /\ issued' = IF r.batches = <<>> THEN issued
                       ELSE <<r.batches[Len(r.batches)].atlasId>>
    /\ lastCall' = Call("RRenderFrame", FALSE, FALSE)
    /\ UNCHANGED <<_drawCommands, appended, backend>>
    /\ UNCHANGED <<_contextSet, _preImages, _atlasImages, _atlases,
                   _tallest, _widest, _pixelCount, _maxTextures,
                   _maxTextureSize, aborted, windowReturns, imagesAtWindow>>
    /\ UNCHANGED <<cvars, lvars, fvars, mvars, pvars>>

\* RRenderFrame one pass of its outer loop at a time.  rendered holds the
\* position of the call: pc ("loop" inside the while, "returned" behind
\* it), the local drawn, the toDraw of the pass before, and the command
\* list as it was when the function was entered.
InFrame == "pc" \in DOMAIN rendered /\ rendered.pc = "loop"
Returned == "pc" \in DOMAIN rendered /\ rendered.pc = "returned"

\* unsigned int drawn = 0;
RRenderFrame_Enter ==
    /\ ~aborted
    /\ ~InFrame
    /\ rendered' = [done |-> FALSE, pc |-> "loop", drawn |-> 0, toDraw |-> 0,
                    cmds |-> _drawCommands]
    /\ lastCall' = Call("RRenderFrame", FALSE, FALSE)
    /\ UNCHANGED <<_drawCommands, appended, backend, issued>>
    /\ UNCHANGED <<rvars, cvars, lvars, fvars, mvars, pvars>>

\* One pass of while (drawn < _drawCommands.size()): toDraw is counted,
\* the atlas of the command at drawn is bound when it is not yet, and
\* drawn += toDraw.
RRenderFrame_Pass ==
    /\ InFrame
    /\ rendered.drawn < Len(_drawCommands)
    /\ LET toDraw == ToDraw(_drawCommands, rendered.drawn + 1, rendered.drawn + 1)
           atlasId == _drawCommands[rendered.drawn + 1].atlasId
       IN /\ boundAtlas' = IF boundAtlas # atlasId THEN atlasId ELSE boundAtlas
          /\ rendered' = [rendered EXCEPT !.drawn = rendered.drawn + toDraw,
                                          !.toDraw = toDraw]
    /\ UNCHANGED <<_drawCommands, appended, backend, issued, lastCall>>
    /\ UNCHANGED <<_contextSet, _preImages, _atlasImages, _atlases,
                   _tallest, _widest, _pixelCount, _maxTextures,
                   _maxTextureSize, aborted, windowReturns, imagesAtWindow>>
    /\ UNCHANGED <<cvars, lvars, fvars, mvars, pvars>>

\* The test of the while fails and the function returns.
RRenderFrame_Return ==
    /\ InFrame
    /\ rendered.drawn >= Len(_drawCommands)
    /\ rendered' = [rendered EXCEPT !.pc = "returned"]
    /\ UNCHANGED <<_drawCommands, appended, backend, issued, lastCall>>
    /\ UNCHANGED <<rvars, cvars, lvars, fvars, mvars, pvars>>

\* ------------------------------------------- InflateBlock, byte by byte
Bytes == {0, 1}
\* The byte strings of length at most n.
Strings(n) == UNION {[1..k -> Bytes] : k \in 0..n}

\* zlib's inflate(&strm, Z_NO_FLUSH) with next_out = out, avail_out =
\* Len(out) and `rest' the plaintext still to come: it writes as much of
\* rest as out takes and returns Z_STREAM_END once nothing is left; when
\* the last byte fills out exactly it may report the end at once or on the
\* next call (exactEnd).
inflate(out, rest, exactEnd) ==
    LET n == Min(Len(out), Len(rest))
        left == SubSeq(rest, n + 1, Len(rest))
    IN [out |-> SubSeq(rest, 1, n) \o SubSeq(out, n + 1, Len(out)),
        avail_out |-> Len(out) - n,
        rest |-> left,
        ret |-> IF left = <<>> /\ (n < Len(out) \/ exactEnd)
                THEN "Z_STREAM_END" ELSE "Z_OK"]

\* memcpy(inflatedDataTmp, inflatedData, inflatedDataSize);
\* memcpy(inflatedDataTmp + inflatedDataSize, *pOutBuffer, availOut);
Accumulate_Whole(inflatedData, out, availOut) == inflatedData \o out

Accumulate(inflatedData, out, availOut) == inflatedData \o SubSeq(out, 1, availOut)

\* while (ret != Z_STREAM_END) { .. }  (Collision.hpp:206-227)
RECURSIVE InflateRest(_, _, _, _)
InflateRest(out, rest, inflatedData, exactEnd) ==
    LET r == inflate(out, rest, exactEnd)
        more == Accumulate(inflatedData, r.out, Len(out) - r.avail_out)
    IN IF r.ret = "Z_STREAM_END"
       THEN [out |-> r.out, inflatedData |-> more]
       ELSE InflateRest(r.out, r.rest, more, exactEnd)

\* InflateBlock at *pPos = pos on a block of len compressed bytes that
\* inflate to plain, with *pOutBuffer = out and *pOutBufferSize = Len(out):
\* the buffer, *pOutSize and *pPos it leaves when it returns true.
InflateBytes(pos, len, plain, out, exactEnd) ==
    LET r == inflate(out, plain, exactEnd)
        availOut == Len(out) - r.avail_out
        all == InflateRest(r.out, r.rest, SubSeq(r.out, 1, availOut), exactEnd)
        size == Len(all.inflatedData)
    IN IF r.ret = "Z_STREAM_END"
       THEN [out |-> r.out, outSize |-> availOut, pos |-> pos + 4 + len]
       ELSE [out |-> IF size > Len(out)
                     THEN all.inflatedData
                     ELSE all.inflatedData \o SubSeq(all.out, size + 1, Len(out)),
             outSize |-> size,
             pos |-> pos + 4 + len]

\* The first *pOutSize bytes of the buffer, which is what a caller reads.
Output(r) == SubSeq(r.out, 1, r.outSize)

\* Lengths of the compressed form of a block.
CompressedLengths == {8, 9}

\* InflateBlock on two blocks that lie one after the other in a stream,
\* first with one buffer for both calls and then with a buffer for each.
InflateTwice ==
    /\ ~inflated.done
    /\ \E plain1 \in Strings(MaxPlain), plain2 \in Strings(MaxPlain),
          cap \in 1..MaxCapacity, old \in Bytes,
          len1 \in CompressedLengths, len2 \in CompressedLengths,
          end1 \in BOOLEAN, end2 \in BOOLEAN :
         LET buffer == [i \in 1..cap |-> old]
             s1 == InflateBytes(0, len1, plain1, buffer, end1)
             s2 == InflateBytes(s1.pos, len2, plain2, s1.out, end2)
             d1 == InflateBytes(0, len1, plain1, buffer, end1)
             d2 == InflateBytes(4 + len1, len2, plain2, buffer, end2)
         IN inflated' = [done |-> TRUE, plain |-> <<plain1, plain2>>,
                         len |-> <<len1, len2>>, capacity |-> cap,
                         shared |-> <<Output(s1), Output(s2)>>,
                         dedicated |-> <<Output(d1), Output(d2)>>,
                         outSize |-> <<s1.outSize, s2.outSize>>,
                         bufferSize |-> <<Len(s1.out), Len(s2.out)>>,
                         pos |-> <<s1.pos, s2.pos>>]
    /\ UNCHANGED <<cipher, extension, xored, partner, retained>>
    /\ UNCHANGED <<rvars, cvars, lvars, fvars, mvars, dvars>>

\* ------------------------------------------------------------ DecryptData
\* unsigned char swapTable[256]
TableSize == 256
Octets == 0..(TableSize - 1)

\* for (i = 0; i < 256; i++) reverseTable[swapTable[i]] = i;
ReverseTable(swapTable) ==
    [v \in Octets |-> CHOOSE i \in Octets : swapTable[i] = v]

\* The first pass (Collision.hpp:131-136) from i - pos = n down to 2 on the
\* region p, whose byte at offset k from *pPos is p[k + 1]:
\* pStream[i - 1] = reverseTable[pStream[i - 1]] - (pStream[i - 2] + (i - (pos + 1)))
FirstPass_NoOffset(p, reverseTable, n) == [k \in 1..Len(p) |->
    IF k = 1 THEN p[k] ELSE (reverseTable[p[k]] - p[k - 1]) % TableSize]

RECURSIVE FirstPass(_, _, _)
FirstPass(p, reverseTable, n) ==
    IF n <= 1
    THEN p
    ELSE FirstPass([p EXCEPT ![n] = (reverseTable[p[n]] - (p[n - 1] + (n - 1))) % TableSize],
                   reverseTable, n - 1)

\* a = pStream[i]; pStream[i] = pStream[b]; pStream[b] = a;
Swap(p, i, b) == [p EXCEPT ![i] = p[b], ![b] = p[i]]

\* b = i - (int)swapTable[(i - pos) & 0xFF]; if (b < pos) b = pos;
\* as an offset from *pPos.  On the streams of DecryptEncoded *pPos is at
\* least 268, beyond every entry of the table, so the unsigned difference
\* does not wrap there.
SwapWith(swapTable, j) == Max(0, j - swapTable[j % TableSize])

\* The second pass (Collision.hpp:138-150) from i - pos = j down to 1.
RECURSIVE SecondPass(_, _, _)
SecondPass(p, swapTable, j) ==
    IF j < 1
    THEN p
    ELSE SecondPass(Swap(p, j + 1, SwapWith(swapTable, j) + 1), swapTable, j - 1)

\* DecryptData at *pPos = pos on a stream that holds the two garbage sizes
\* g1 and g2 (in dwords), the first garbage, swapTable, the second garbage,
\* the length of the region and the region: the region and *pPos it leaves.
DecryptData(pos, g1, g2, swapTable, region) ==
    LET first == FirstPass(region, ReverseTable(swapTable), Len(region))
    IN [region |-> SecondPass(first, swapTable, Len(region) - 1),
        pos |-> pos + 8 + (4 * g1) + TableSize + (4 * g2) + 4]

\* The encoder DecryptData undoes: the swaps of the second pass in the
\* opposite order, then the substitution, each byte chained to the encoded
\* byte before it.
RECURSIVE EncodeSwaps(_, _, _)
EncodeSwaps(p, swapTable, j) ==
    IF j > Len(p) - 1
    THEN p
    ELSE EncodeSwaps(Swap(p, j + 1, SwapWith(swapTable, j) + 1), swapTable, j + 1)

RECURSIVE EncodeBytes(_, _, _)
EncodeBytes(p, swapTable, n) ==
    IF n > Len(p)
    THEN p
    ELSE EncodeBytes([p EXCEPT ![n] = swapTable[(p[n] + p[n - 1] + (n - 1)) % TableSize]],
                     swapTable, n + 1)

Encode(swapTable, plain) == EncodeBytes(EncodeSwaps(plain, swapTable, 1), swapTable, 2)

\* Permutations of the 256 byte values.
SwapTables ==
    <<[i \in Octets |-> i],
      [i \in Octets |-> (TableSize - 1) - i],
      [i \in Octets |-> (i + 1) % TableSize],
      [i \in Octets |-> ((7 * i) + 3) % TableSize]>>

RegionBytes == {0, 1, TableSize - 1}
Regions == UNION {[1..k -> RegionBytes] : k \in 0..MaxRegion}

\* DecryptData on the encoded form of a region.
DecryptEncoded ==
    /\ ~cipher.done
    /\ \E t \in 1..Len(SwapTables), plain \in Regions, g1 \in {0, 1}, g2 \in {0, 1} :
         LET encoded == Encode(SwapTables[t], plain)
             r == DecryptData(0, g1, g2, SwapTables[t], encoded)
         IN cipher' = [done |-> TRUE, table |-> t, plain |-> plain,
                       encoded |-> encoded, decoded |-> r.region,
                       garbage |-> <<g1, g2>>, pos |-> r.pos]
    /\ UNCHANGED <<inflated, extension, xored, partner, retained>>
    /\ UNCHANGED <<rvars, cvars, lvars, fvars, mvars, dvars>>

\* ------------------------------------------- the byte table of an extension
\* unsigned char charTable[0x200]
CharTableSize == 512
\* for (unsigned int i = 1; i < 0x2711; i++)
SwapPasses == 10000

\* "/" and "%" of C on an int a and a positive b: the quotient is rounded
\* towards zero and the remainder has the sign of a.
TruncDiv(a, b) == IF a >= 0 \/ a % b = 0 THEN a \div b ELSE (a \div b) + 1
TruncRem(a, b) == IF a >= 0 \/ a % b = 0 THEN a % b ELSE (a % b) - b

\* The remainder by m of the unsigned int that has the 32 bits of the int x.
URem(x, m) ==
    IF x >= 0 THEN x % m ELSE ((x % m) + ((Limb % m) * (Limb % m))) % m

\* The int that ReadDword's result becomes in "int seed1 = ReadDword(..)":
\* the bytes b[1] .. b[4], the lowest first.
AsInt(b) ==
    b[1] + (256 * b[2]) + (Limb * b[3])
    + (Limb * 256 * (IF b[4] >= 128 THEN b[4] - 256 ELSE b[4]))

\* The four bytes of the dword with the bits of the int d, the lowest first.
DwordBytes(d) == [k \in 1..4 |-> (d \div (256 ^ (k - 1))) % 256]

\* "int seed2 = (seed1 % 0xFA) + 6; seed1 /= 0xFA; if (seed1 < 0) seed1 +=
\* 100; if (seed2 < 0) seed2 += 100;" for the dword d
Seeds(d) ==
    LET s1 == TruncDiv(d, 250)
        s2 == TruncRem(d, 250) + 6
    IN [seed1 |-> IF s1 < 0 THEN s1 + 100 ELSE s1,
        seed2 |-> IF s2 < 0 THEN s2 + 100 ELSE s2]

\* charTable as a sequence: charTable[i] is t[i + 1].
Entry(t, i) == t[i + 1]
Store(t, i, v) == [t EXCEPT ![i + 1] = v]

\* for (unsigned int i = 0; i < 0x200; i++) charTable[i] = i;
InitialTable == SubSeq([k \in 1..CharTableSize |-> (k - 1) % 256], 1, CharTableSize)

\* "unsigned int AX = (((i * seed2) + seed1) % 0xFE) + 1;" with i unsigned
AX_FromZero(i, s) == URem((i * s.seed2) + s.seed1, 254)

AX(i, s) == URem((i * s.seed2) + s.seed1, 254) + 1

\* b1 = charTable[AX]; b2 = charTable[AX + 1]; charTable[AX] = b2;
\* charTable[AX + 1] = b1;
SwapEntries(t, ax) == Store(Store(t, ax, Entry(t, ax + 1)), ax + 1, Entry(t, ax))

\* The passes lo .. hi - 1 of the first loop over the table, one after the
\* other: those up to the middle give the table a, which has the length of
\* t, and the others go on from a.
RECURSIVE SwapPass(_, _, _, _)
SwapPass(t, lo, hi, s) ==
    IF hi <= lo THEN t
    ELSE IF hi = lo + 1 THEN SwapEntries(t, AX(lo, s))
    ELSE LET mid == (lo + hi) \div 2
             a == SwapPass(t, lo, mid, s)
         IN IF Len(a) = Len(t) THEN SwapPass(a, mid, hi, s) ELSE a

\* The passes lo .. hi - 1 of the second loop: "unsigned char DX =
\* charTable[i + 1]; charTable[DX + 0x100] = i + 1;"
RECURSIVE InversePass(_, _, _)
InversePass(t, lo, hi) ==
    IF hi <= lo THEN t
    ELSE IF hi = lo + 1 THEN Store(t, Entry(t, lo + 1) + 256, (lo + 1) % 256)
    ELSE LET mid == (lo + hi) \div 2
             a == InversePass(t, lo, mid)
         IN IF Len(a) = Len(t) THEN InversePass(a, mid, hi) ELSE a

\* The table after the first loop, and the table GameLoad decrypts with.
SwappedTable(s) == SwapPass(InitialTable, 1, SwapPasses + 1, s)
CharTable(s) == InversePass(SwappedTable(s), 0, 256)

\* "for (unsigned int i = dataPos + 1; i < pos; i++) buffer[i] =
\* charTable[buffer[i] + 0x100];" on the buffer b, whose byte at offset k is
\* b[k + 1]
Substitute_AfterSeed(b, dataPos, pos, t) ==
    [k \in 1..Len(b) |-> IF dataPos <= k - 1 /\ k - 1 < pos THEN Entry(t, b[k] + 256) ELSE b[k]]

Substitute(b, dataPos, pos, t) ==
    [k \in 1..Len(b) |-> IF dataPos + 1 <= k - 1 /\ k - 1 < pos THEN Entry(t, b[k] + 256) ELSE b[k]]

\* Seed dwords as the int they are read into: small ones, the largest, and
\* ones that leave seed1, seed2 or both below zero before or after the
\* adjustment by 100.
SeedDwords == {0, 1, 1753, 2147483647, -1, -2494, (-2147483647) - 1}

ExtensionBytes == {0, 1, 255}
ExtensionData == UNION {[1..k -> ExtensionBytes] : k \in 0..MaxData}
Padding == {<<>>, <<1>>}

\* The byte table of one extension (Collision.hpp:566-590) for the seed
\* dword d; swapped is the set of the indexes AX of the first loop.
ExtensionTable ==
    /\ extension.pc = "idle"
    /\ \E d \in SeedDwords :
         LET s == Seeds(d)
         IN extension' = [pc |-> "table", dword |-> d, seeds |-> s,
                          swapped |-> {AX(i, s) : i \in 1..SwapPasses},
                          first |-> SwappedTable(s),
                          charTable |-> CharTable(s)]
    /\ UNCHANGED <<inflated, cipher, xored, partner, retained>>
    /\ UNCHANGED <<rvars, cvars, lvars, fvars, mvars, dvars>>

\* The data block of the extension decrypted in place
\* (Collision.hpp:561-595): the raw buffer holds some bytes, the length of
\* the block, the seed dword the table was built from, the data of the
\* files and the bytes of what follows.
ExtensionDecrypt ==
    /\ extension.pc = "table"
    /\ \E lead \in Padding, data \in ExtensionData, rest \in Padding :
         LET endpos == 4 + Len(data)
             buffer == lead \o DwordBytes(endpos) \o DwordBytes(extension.dword)
                       \o data \o rest
             start == Len(lead) + 4
             seed == AsInt(SubSeq(buffer, start + 1, start + 4))
             dataPos == start + 4
             pos == start + endpos
         IN extension' = [pc |-> "done", dword |-> extension.dword,
                          seeds |-> extension.seeds, swapped |-> extension.swapped,
                          first |-> extension.first,
                          charTable |-> extension.charTable,
                          buffer |-> buffer, seedRead |-> seed,
                          dataPos |-> dataPos, pos |-> pos,
                          decrypted |-> Substitute(buffer, dataPos, pos,
                                                   extension.charTable)]
    /\ UNCHANGED <<inflated, cipher, xored, partner, retained>>
    /\ UNCHANGED <<rvars, cvars, lvars, fvars, mvars, dvars>>

\* ------------------------------------------------ Decrypt81, byte by byte
\* The exclusive or of the n low bits of a and b.
RECURSIVE Xor(_, _, _)
Xor(a, b, n) ==
    IF n = 0 THEN 0
    ELSE ((a + b) % 2) + (2 * Xor(a \div 2, b \div 2, n - 1))

\* "(0xFFFF & seed) * factor + (seed >> 16)" in unsigned int, for a factor
\* below 2^16; the product is taken in two parts so that none passes 2^31.
MulAdd(seed, factor) ==
    LET p1 == (seed[2] * (factor % 256)) + seed[1]
        p2 == seed[2] * (factor \div 256)
        c == ((p2 % 256) * 256) + p1
    IN <<((p2 \div 256) + (c \div Limb)) % Limb, c % Limb>>

\* GetXorMask: the two seeds it leaves and the mask it returns,
\* ((*seed1) << 16) + ((*seed2) & 0xFFFF).
GetXorMask(seed1, seed2) ==
    LET s1 == MulAdd(seed1, 36969)
        s2 == MulAdd(seed2, 18000)
    IN [seed1 |-> s1, seed2 |-> s2, mask |-> <<s1[2], s2[2]>>]

\* ReadDword on a stream whose byte at offset k is stream[k + 1]: the four
\* bytes from pos on, the lowest first.
DwordAt(stream, pos) ==
    <<stream[pos + 3] + (256 * stream[pos + 4]),
      stream[pos + 1] + (256 * stream[pos + 2])>>

\* pStream[encPos - 4] .. pStream[encPos - 1] = the bytes of d, the lowest
\* first, with encPos already moved past the dword read at pos.
WriteDword(stream, pos, d) ==
    [stream EXCEPT ![pos + 1] = d[2] % 256, ![pos + 2] = d[2] \div 256,
                   ![pos + 3] = d[1] % 256, ![pos + 4] = d[1] \div 256]

\* unsigned int encPos = (*pPos) + (seed2 & 0xFF) + 0xA;
EncPos_NoSeed(pos, seed2) == pos + 10

EncPos(pos, seed2) == pos + (seed2[2] % 256) + 10

\* The while (encPos < pStreamLength) loop from encPos on.
RECURSIVE Decrypt81Loop(_, _, _, _, _)
Decrypt81Loop(stream, length, encPos, seed1, seed2) ==
    IF ~(encPos < length) \/ (length - encPos) < 4
    THEN stream
    ELSE LET g == GetXorMask(seed1, seed2)
             d == DwordAt(stream, encPos)
             decryptedDword == <<Xor(d[1], g.mask[1], 16), Xor(d[2], g.mask[2], 16)>>
         IN Decrypt81Loop(WriteDword(stream, encPos, decryptedDword), length,
                          encPos + 4, g.seed1, g.seed2)

\* The streams Decrypt81 is run on: all bytes 0, all bytes 255, and bytes
\* that differ from place to place.
Patterns == {"zero", "ones", "ramp"}
Pattern(kind, k) ==
    IF kind = "zero" THEN 0
    ELSE IF kind = "ones" THEN 255
    ELSE ((37 * k) + 11) % 256
Stream(kind, length) == [k \in 1..length |-> Pattern(kind, k - 1)]

\* The cursor Decrypt81 is entered with.
Cursors == {0, 1}
\* seed2 as Crc32 returns it: the low byte 0, 2, 3 and 255.
Seed2s == {U32(0), U32(2), <<4660, 22019>>, <<Limb - 1, Limb - 1>>}
\* Lengths of the stream: too short for the two dwords Decrypt81 reads, one
\* byte short of the encrypted part, and 0..MaxGroups dwords of encrypted
\* part followed by 0..3 bytes.
StreamLengths(P, seed2) ==
    {0, P + 3, P + 7, P + 8, EncPos(P + 8, seed2) - 1}
    \cup {EncPos(P + 8, seed2) + (4 * g) + r : g \in 0..MaxGroups, r \in 0..3}

\* Decrypt81(pStream, pStreamLength, pPos) with *pPos = P.  seed2 is the
\* Crc32 of the key text; seed1 is the dword at P + 4, and any value when
\* the stream ends before it (the read is undefined).
Decrypt81_Stream ==
    /\ ~xored.done
    /\ \E kind \in Patterns, P \in Cursors, seed2 \in Seed2s :
         \E length \in StreamLengths(P, seed2), garbage \in Samples32 :
           LET stream == Stream(kind, length)
               inside == P + 8 <= length
               seed1 == IF inside THEN DwordAt(stream, P + 4) ELSE garbage
               encPos == EncPos(P + 8, seed2)
           IN /\ inside => garbage = U32(0)
              /\ xored' = [done |-> TRUE, stream |-> stream, length |-> length,
                           P |-> P, pos |-> P + 8, oob |-> ~inside,
                           seed1 |-> seed1, seed2 |-> seed2, encPos |-> encPos,
                           decrypted |-> Decrypt81Loop(stream, length, encPos,
                                                       seed1, seed2)]
    /\ UNCHANGED <<inflated, cipher, extension, partner, retained>>
    /\ UNCHANGED <<rvars, cvars, lvars, fvars, mvars, dvars>>

\* ------------------------------- DecryptData, where its second pass swaps
\* "4 * ReadDword(pStream, pPos)" in unsigned int: 4 * d modulo 2^32.
Mul4(d) == Add32(Add32(d, d), Add32(d, d))

\* *pPos when memcpy reads swapTable, and when the passes run (the start of
\* the region), for DecryptData entered at P on a stream whose garbage
\* sizes are the dwords d1 and d2.
SwapTablePos(P, d1) == Add32(U32(P + 8), Mul4(d1))
RegionStart(P, d1, d2) ==
    Add32(Add32(SwapTablePos(P, d1), Add32(Mul4(d2), U32(TableSize))), U32(4))

\* "b = i - (int)swapTable[(i - (*pPos)) & 0xFF]; if (b < (*pPos)) b =
\* (*pPos);" with i, b and *pPos unsigned int.
Partner(i, pos, swapTable) ==
    LET b == Sub32(i, U32(swapTable[Sub32(i, pos)[2] % TableSize]))
    IN IF Lt32(b, pos) THEN pos ELSE b

\* Garbage sizes: none, one dword, and the 2^30 - 65 dwords whose 4-fold
\* is -260 modulo 2^32.
GarbageSizes == {U32(0), U32(1), <<16383, 65471>>}

\* The second pass of DecryptData entered at P: partners[j] is the index b
\* it swaps pStream[start + j] with, taken for i = start + len - 1 down to
\* start + 1.  The dword of the length is none of the two size dwords, so
\* the length is free.
SecondPassPartners ==
    /\ ~partner.done
    /\ \E P \in {0, 4}, d1 \in GarbageSizes, d2 \in GarbageSizes,
          t \in 1..Len(SwapTables), len \in 0..MaxRegion :
         LET start == RegionStart(P, d1, d2)
             lenPos == Sub32(start, U32(4))
         IN /\ lenPos \notin {U32(P), U32(P + 4)}
            /\ partner' = [done |-> TRUE, P |-> P, sizes |-> <<d1, d2>>,
                           table |-> t, tablePos |-> SwapTablePos(P, d1),
                           start |-> start, len |-> len,
                           partners |-> [j \in 1..(len - 1) |->
                                           Partner(Add32(start, U32(j)), start,
                                                   SwapTables[t])]]
    /\ UNCHANGED <<inflated, cipher, extension, xored, retained>>
    /\ UNCHANGED <<rvars, cvars, lvars, fvars, mvars, dvars>>

\* ------------------------------- what the loader keeps of the decode buffer
\* The heap is the sequence of the blocks ever allocated: heap[k] has the
\* bytes of block k and tells whether it is still allocated.  A reference is
\* a block, an offset into it and a length.
Block(bytes) == [live |-> TRUE, bytes |-> bytes]
Ref(block, off, len) == [block |-> block, off |-> off, len |-> len]

\* dst = malloc(len); memcpy(dst, src + off, len): the heap with the new
\* block and the reference the record keeps.
CopyOut_Alias(heap, src, off, len) == [heap |-> heap, ref |-> Ref(src, off, len)]

CopyOut(heap, src, off, len) ==
    [heap |-> Append(heap, Block(SubSeq(heap[src].bytes, off + 1, off + len))),
     ref |-> Ref(Len(heap) + 1, 0, len)]

\* "unsigned char* data = (unsigned char*)malloc(dataLength);": the heap
\* with the decode buffer alone.
DataAllocated(cap) ==
    [pc |-> "loading", heap |-> <<Block([i \in 1..cap |-> 0])>>, data |-> 1,
     buffers |-> {1}, outputSize |-> 0, calls |-> 0, kept |-> <<>>]

\* The plaintexts of the blocks.
Payloads == {<<1>>, <<0, 1>>, <<1, 0>>, <<1, 1, 0>>}

\* InflateBlock(buffer, &pos, &data, &dataLength, &outputSize) returns
\* true: the output lies in the block of data, or, when it is longer than
\* the block, in a new block that data names from now on, the old one
\* being freed.
InflateShared ==
    /\ retained.calls < MaxBlocks
    /\ \E plain \in Payloads, exactEnd \in BOOLEAN :
         LET old == retained.heap[retained.data].bytes
             r == InflateBytes(0, 8, plain, old, exactEnd)
             grown == Len(r.out) > Len(old)
             heap == IF grown
                     THEN Append([retained.heap EXCEPT ![retained.data] =
                                     [live |-> FALSE, bytes |-> <<>>]],
                                 Block(r.out))
                     ELSE [retained.heap EXCEPT ![retained.data].bytes = r.out]
             data == IF grown THEN Len(heap) ELSE retained.data
         IN retained' = [retained EXCEPT !.heap = heap, !.data = data,
                                         !.buffers = @ \cup {data},
                                         !.outputSize = r.outSize,
                                         !.calls = @ + 1]
    /\ UNCHANGED <<inflated, cipher, extension, xored, partner>>
    /\ UNCHANGED <<rvars, cvars, lvars, fvars, mvars, dvars>>

\* A record keeps the len bytes at data + off: bytes is what they are when
\* it does, src the block of data and call the number of InflateBlock
\* calls made by then.
Keep(off, len) ==
    /\ retained.calls > 0
    /\ Len(retained.kept) < MaxKept
    /\ off + len <= retained.outputSize
    /\ LET c == CopyOut(retained.heap, retained.data, off, len)
       IN retained' = [retained EXCEPT
            !.heap = c.heap,
            !.kept = Append(@, [ref |-> c.ref, src |-> retained.data,
                                call |-> retained.calls,
                                bytes |-> SubSeq(retained.heap[retained.data].bytes,
                                                 off + 1, off + len)])]
    /\ UNCHANGED <<inflated, cipher, extension, xored, partner>>
    /\ UNCHANGED <<rvars, cvars, lvars, fvars, mvars, dvars>>

\* extension->files[i].data = malloc(outputSize); memcpy(.., data, outputSize);
KeepExtensionFile == Keep(0, retained.outputSize)

\* sound->data = malloc(l); memcpy(sound->data, (data + dataPos), l);
KeepSound == \E dataPos \in 0..1, l \in 1..2 : Keep(dataPos, l)

\* file->data = new unsigned char[file->dataLength];
\* memcpy(file->data, (data + dataPos), file->dataLength);
KeepIncludeFile == \E dataPos \in 0..1, fileLength \in 1..2 : Keep(dataPos, fileLength)

\* RMakeImage(.., data + dataPos): pImg.data = malloc(w * h * 4);
\* memcpy(pImg.data, bytes, (w * h * 4));
KeepImage == \E dataPos \in 0..1, size \in 1..2 : Keep(dataPos, size)

\* ReadString(data, &dataPos): the caller receives an owned copy of the
\* bytes behind the length.
KeepString == \E dataPos \in 0..1, length \in 1..2 : Keep(dataPos, length)

\* ----------------------------------------------------------------- idle
\* Before InflateBlock, DecryptData, Decrypt81 and the decryption of an
\* extension are run on their own.
PureIdle ==
    /\ inflated = [done |-> FALSE]
    /\ cipher = [done |-> FALSE]
    /\ extension = [pc |-> "idle"]
    /\ xored = [done |-> FALSE]
    /\ partner = [done |-> FALSE]
    /\ retained = [pc |-> "idle"]

\* The variables of the parts of the program a specification leaves out.
RestIdle == MainIdle /\ DrawIdle /\ PureIdle

\* ------------------------------------------------- the header of the file
\* if (file_size < 0x1B)
MinFileSize == 27
\* pos = 2000000;
GM80Offset == 2000000
\* pos = 3800004;
GM81Offset == 3800004
\* for (int i = 0; i < 1024; i++)
ScanSteps == 1024

\* A game file, as far as the header code looks at it:
\*   size    its length in bytes
\*   mz      its first two bytes are 'M', 'Z'
\*   fp80    the dword at GM80Offset is 1234321
\*   first   the numbers k of the dwords at GM81Offset + 4k that carry
\*           0xF7000000 under the mask 0xFF00FF00
\*   second  the numbers k of the dwords at GM81Offset + 4k that carry
\*           0x00140067 under the mask 0x00FF00FF
\*   hit81   the step at which the scan of the code finds the GM8.1
\*           fingerprint when it reads these dwords; ScanSteps when it
\*           finds none
\* A mark is a fact about bytes of the file, so it lies inside the file.
FileSizes ==
    {0, MinFileSize - 1, MinFileSize, GM80Offset + 3, GM80Offset + 4,
     GM81Offset + 7, GM81Offset + 8, GM81Offset + 15, GM81Offset + 16,
     GM81Offset + (4 * ScanSteps) - 1, GM81Offset + (4 * ScanSteps),
     GM81Offset + (4 * ScanSteps) + 3, GM81Offset + (4 * ScanSteps) + 4,
     GM81Offset + (4 * ScanSteps) + 8}
\* first and second together: no mark, the fingerprint at the first and
\* at the last step, a first half with a gap before the second, a first
\* half followed by the fingerprint, two fingerprints, a first half at the
\* last step, a second half alone and a fingerprint just behind the window.
Mark(first, second) == [first |-> first, second |-> second]
Marks ==
    {Mark({}, {}), Mark({0}, {1}), Mark({ScanSteps - 1}, {ScanSteps}),
     Mark({0}, {2}), Mark({0, 1}, {2}), Mark({0, 1}, {1, 2}),
     Mark({ScanSteps - 1}, {}), Mark({}, {1}), Mark({ScanSteps}, {ScanSteps + 1})}

\* The offset after the two dwords of the fingerprint found at step i.
HitEnd(i) == GM81Offset + (4 * i) + 8

\* "(ReadDword(buffer, &pos) & 0xFF00FF00) == 0xF7000000" and
\* "(ReadDword(buffer, &pos) & 0x00FF00FF) == 0x00140067" for the dword at
\* pos inside the file
FirstHalf(f, pos) == ((pos - GM81Offset) \div 4) \in f.first
SecondHalf(f, pos) == ((pos - GM81Offset) \div 4) \in f.second

\* "pos -= 4;" after a first half that the next dword does not complete
StepBack_Missing(pos) == pos

StepBack(pos) == pos - 4

\* One pass of the loop "for (int i = 0; i < 1024; i++)" with the cursor at
\* pos, the reads giving the bytes of the file: whether it breaks, and the
\* cursor it leaves.
ScanStep(f, pos) ==
    IF FirstHalf(f, pos)
    THEN IF SecondHalf(f, pos + 4)
         THEN [found |-> TRUE, pos |-> pos + 8]
         ELSE [found |-> FALSE, pos |-> StepBack(pos + 8)]
    ELSE [found |-> FALSE, pos |-> pos + 4]

\* The passes lo .. hi - 1 of the loop, one after the other: the pass that
\* breaks, or hi, and the cursor left.
RECURSIVE Scan(_, _, _, _)
Scan(f, lo, hi, pos) ==
    IF hi = lo + 1
    THEN LET r == ScanStep(f, pos)
         IN [step |-> IF r.found THEN lo ELSE hi, found |-> r.found, pos |-> r.pos]
    ELSE LET mid == (lo + hi) \div 2
             a == Scan(f, lo, mid, pos)
         IN IF a.found THEN a ELSE Scan(f, mid, hi, a.pos)

\* The step at which the scan of f finds the GM8.1 fingerprint; ScanSteps
\* when it finds none.
Hit81(f) == Scan(f, 0, ScanSteps, GM81Offset).step

\* The dword of the last step carries the first half of the fingerprint and
\* the scan finds none, so that the code reads the dword after it too.
Half(f) == f.hit81 = ScanSteps /\ (ScanSteps - 1) \in f.first

WellFormed(f) ==
    /\ f.mz => f.size >= 2
    /\ f.fp80 => f.size >= GM80Offset + 4
    /\ \A k \in f.first \cup f.second : f.size >= GM81Offset + (4 * k) + 4

\* The files of every explored size that carry the marks m, the scan run
\* once for them all.
Scanned(m) ==
    LET hit == Hit81(m)
    IN {f \in [size : FileSizes, mz : BOOLEAN, fp80 : BOOLEAN, first : {m.first},
               second : {m.second}, hit81 : {hit}] : WellFormed(f)}

HeaderFiles == UNION {Scanned(m) : m \in Marks}

\* The offset after the last dword the scan reads when every read gives the
\* bytes of the file.
ScanEnd(f) ==
    IF f.hit81 < ScanSteps THEN HitEnd(f.hit81)
    ELSE IF Half(f) THEN GM81Offset + (4 * ScanSteps) + 4
    ELSE GM81Offset + (4 * ScanSteps)

\* The first dword at or after offset off, in steps of four, that does not
\* lie inside the file.
FirstOutside(f, off) ==
    IF f.size < off + 4 THEN off ELSE off + (4 * ((f.size - off) \div 4))

\* What a read outside the buffer can do: end the process, or give bytes
\* that compare equal or unequal to the value looked for.
ReadOutcomes == {"crash", "match", "nomatch"}

\* ReadDword(buffer, &pos) for the dwords from off up to end: inside the
\* file the comparison gives `inside'; otherwise the behaviour is undefined
\* and gives ub.
ReadDword(f, off, end, inside, ub) ==
    IF end <= f.size
    THEN [v |-> IF inside THEN "match" ELSE "nomatch", out |-> {}]
    ELSE [v |-> ub, out |-> {FirstOutside(f, off)}]

\* Decrypt81 reads the hash key and seed1 after the fingerprint, then
\* decrypts while (encPos < pStreamLength).
Decrypt81(f, pos, ub) ==
    LET r == ReadDword(f, pos, pos + 8, TRUE, ub)
    IN [crash |-> r.v = "crash", out |-> r.out]

\* Collision.hpp:324-372: the checks of the size and of "MZ", then the
\* search for the fingerprints.  ub80, ub81 and ubKey are what the reads
\* at GM80Offset, in the scan and in Decrypt81 do when they leave the file.
Header(f, ub80, ub81, ubKey) ==
    IF f.size < MinFileSize THEN [end |-> "false", version |-> 0, decrypts |-> 0, out |-> {}]
    ELSE IF ~f.mz THEN [end |-> "false", version |-> 0, decrypts |-> 0, out |-> {}]
    ELSE LET r80 == ReadDword(f, GM80Offset, GM80Offset + 4, f.fp80, ub80)
             r81 == ReadDword(f, GM81Offset, ScanEnd(f), f.hit81 < ScanSteps, ub81)
             key == Decrypt81(f, IF r81.out = {} THEN ScanEnd(f) ELSE f.size, ubKey)
         IN IF r80.v = "crash"
            THEN [end |-> "crash", version |-> 0, decrypts |-> 0, out |-> r80.out]
            ELSE IF r80.v = "match"
            THEN [end |-> "ok", version |-> 800, decrypts |-> 0, out |-> r80.out]
            ELSE IF r81.v = "crash"
            THEN [end |-> "crash", version |-> 0, decrypts |-> 0, out |-> r80.out \cup r81.out]
            ELSE IF r81.v = "nomatch"
            THEN [end |-> "false", version |-> 0, decrypts |-> 0, out |-> r80.out \cup r81.out]
            ELSE [end |-> IF key.crash THEN "crash" ELSE "ok", version |-> 810,
                  decrypts |-> 1,
                  out |-> r80.out \cup r81.out \cup key.out]

NoFile ==
    [size |-> 0, mz |-> FALSE, fp80 |-> FALSE, first |-> {}, second |-> {},
     hit81 |-> ScanSteps]

\* Before GameLoad has opened a file.
HeaderIdle ==
    /\ file = NoFile
    /\ oob = {}
    /\ version = 0
    /\ decrypts = 0

\* CodeActionManager::Init, CodeManager::Init, the opening of the file and
\* the allocation of the buffer (Collision.hpp:285-317).
OpenOutcomes == {"ok", "dndInitFails", "runnerInitFails", "openFails", "badAlloc"}

\* GameLoad up to the detection of the version (Collision.hpp:285-372).
LoadOpen(f) ==
    /\ lpc = "entry"
    /\ file' = f
    /\ \E o \in OpenOutcomes, ub80 \in ReadOutcomes, ub81 \in ReadOutcomes,
          ubKey \in ReadOutcomes :
         IF o # "ok"
         THEN /\ LoadReturn("false", mem)
              /\ UNCHANGED <<oob, version, decrypts>>
         ELSE LET m1 == Use(Malloc(mem, "buffer"), "buffer")
                  h == Header(f, ub80, ub81, ubKey)
              IN /\ oob' = h.out
                 /\ version' = h.version
                 /\ decrypts' = h.decrypts
                 /\ CASE h.end = "false" -> LoadReturn("false", Free(m1, "buffer"))
                      [] h.end = "crash" -> /\ lpc' = "crashed"
                                            /\ mem' = m1
                                            /\ UNCHANGED loadResult
                      [] h.end = "ok" -> /\ lpc' = "settings"
                                         /\ mem' = m1
                                         /\ UNCHANGED loadResult
    /\ UNCHANGED <<phase, dataLength, count, declared, consumed, store, nHandles,
                   compileLog, inflateFailed, lastSubmit, budget>>
    /\ UNCHANGED <<rvars, cvars, nvars>>

\* The files the sections are read from: one that is too short, one
\* without "MZ", one without a fingerprint and a GM8.0 game, each long
\* enough for every read of the header.
LoadFiles ==
    {f \in HeaderFiles :
        /\ f.size \in {MinFileSize - 1, GM81Offset + (4 * ScanSteps) + 4}
        /\ f.first = {}
        /\ f.second = {}
        /\ f.size < MinFileSize => ~f.mz
        /\ f.mz \/ ~f.fp80}

\* The settings block (Collision.hpp:376-417).
LoadSettings ==
    /\ lpc = "settings"
    /\ \E n \in OutSizes, fail \in FailModes, exactEnd \in BOOLEAN :
         LET m1 == Malloc(mem, "data")
             r == InflateBlock(m1, "buffer", "data", ZLIB_BUF_START, n, fail, exactEnd)
         IN IF ~r.ok
            THEN /\ FreeAndReturn("false", r.mem)
                 /\ inflateFailed' = TRUE
                 /\ dataLength' = r.cap
            ELSE /\ lpc' = "loadingbar"
                 /\ mem' = Use(r.mem, "data")
                 /\ dataLength' = r.cap
                 /\ UNCHANGED <<loadResult, inflateFailed>>
    /\ UNCHANGED <<phase, count, declared, consumed, store, nHandles,
                   compileLog, lastSubmit, budget>>
    /\ UNCHANGED <<rvars, cvars, xvars>>

\* free(p); free(data); delete[] buffer; return false;
FreeLocalAndReturn(m, p) == FreeAndReturn("false", EndScope(Free(m, p), p))

\* settings.loadingBar with its back and front images (Collision.hpp:417-450).
LoadLoadingBar ==
    /\ lpc = "loadingbar"
    /\ \E loadingBar \in BOOLEAN, back \in BOOLEAN, front \in BOOLEAN,
          n1 \in OutSizes, n2 \in OutSizes, f1 \in FailModes, f2 \in FailModes,
          exactEnd \in BOOLEAN :
         IF ~loadingBar
         THEN /\ lpc' = "customimage"
              /\ mem' = Use(mem, "data")
              /\ UNCHANGED <<loadResult, inflateFailed>>
         ELSE LET m1 == Malloc(Use(mem, "data"), "loadingData")
                  r1 == IF back
                        THEN InflateBlock(m1, "data", "loadingData", ZLIB_BUF_START,
                                          n1, f1, exactEnd)
                        ELSE InflateResult(TRUE, m1, ZLIB_BUF_START, 0)
                  r2 == IF front
                        THEN InflateBlock(r1.mem, "data", "loadingData", r1.cap,
                                          n2, f2, exactEnd)
                        ELSE InflateResult(TRUE, r1.mem, r1.cap, 0)
              IN IF ~r1.ok
                 THEN /\ FreeLocalAndReturn(r1.mem, "loadingData")
                      /\ inflateFailed' = TRUE
                 ELSE IF ~r2.ok
                 THEN /\ FreeLocalAndReturn(r2.mem, "loadingData")
                      /\ inflateFailed' = TRUE
                 ELSE /\ lpc' = "customimage"
                      /\ mem' = EndScope(Free(r2.mem, "loadingData"), "loadingData")
                      /\ UNCHANGED <<loadResult, inflateFailed>>
    /\ UNCHANGED <<phase, dataLength, count, declared, consumed, store, nHandles,
                   compileLog, lastSubmit, budget>>
    /\ UNCHANGED <<rvars, cvars, xvars>>

\* settings.customLoadImage and the rest of the settings (Collision.hpp:452-487).
LoadCustomImage ==
    /\ lpc = "customimage"
    /\ \E customLoadImage \in BOOLEAN, n \in OutSizes, fail \in FailModes,
          exactEnd \in BOOLEAN :
         IF ~customLoadImage
         THEN /\ lpc' = "prelude"
              /\ mem' = Use(mem, "data")
              /\ UNCHANGED <<loadResult, inflateFailed>>
         ELSE LET m1 == Malloc(Use(mem, "data"), "imageData")
                  r == InflateBlock(m1, "data", "imageData", ZLIB_BUF_START, n, fail, exactEnd)
              IN IF ~r.ok
                 THEN /\ FreeLocalAndReturn(r.mem, "imageData")
                      /\ inflateFailed' = TRUE
                 ELSE /\ lpc' = "prelude"
                      /\ mem' = Use(EndScope(Free(r.mem, "imageData"), "imageData"), "data")
                      /\ UNCHANGED <<loadResult, inflateFailed>>
    /\ UNCHANGED <<phase, dataLength, count, declared, consumed, store, nHandles,
                   compileLog, lastSubmit, budget>>
    /\ UNCHANGED <<rvars, cvars, xvars>>

\* The D3D wrapper, DecryptData (which always returns true) and the garbage
\* fields (Collision.hpp:489-503).
LoadPrelude ==
    /\ lpc = "prelude"
    /\ lpc' = "extensions"
    /\ mem' = Use(mem, "buffer")
    /\ UNCHANGED <<phase, loadResult, dataLength, count, declared, consumed, store,
                   nHandles, compileLog, inflateFailed, lastSubmit, budget>>
    /\ UNCHANGED <<rvars, cvars, xvars>>

\* ------------------------------------------------------ section headers
\* free(charTable) after the loop over the extensions; the other sections
\* hold no block of their own.
SectionEnd(sec, m) == IF sec = "extensions" THEN Free(m, "charTable") ELSE m

\* "count = ReadDword(buffer, &pos); AssetManager::Reserve..(count);" at the
\* head of a section; the extensions also allocate charTable when count is
\* not zero, and the include files come after the last instance and tile
\* IDs.  A count of zero skips the loop.
ReadCount ==
    /\ lpc \in CountedSections
    /\ phase = "head"
    /\ \E c \in 0..budget :
         LET m1 == Use(mem, "buffer")
             m2 == IF lpc = "extensions" /\ c > 0 THEN Malloc(m1, "charTable") ELSE m1
         IN /\ count' = c
            /\ declared' = [declared EXCEPT ![lpc] = c]
            /\ budget' = budget - c
            /\ IF c = 0
               THEN /\ lpc' = NextSection(lpc)
                    /\ mem' = SectionEnd(lpc, m2)
                    /\ UNCHANGED phase
               ELSE /\ phase' = "records"
                    /\ mem' = m2
                    /\ UNCHANGED lpc
    /\ UNCHANGED <<loadResult, dataLength, consumed, store, nHandles,
                   compileLog, inflateFailed, lastSubmit>>
    /\ UNCHANGED <<rvars, cvars, xvars>>

\* ------------------------------------------------------------- records
\* The record that AssetManager::Add.. hands out.  ordinal, lead and
\* bodyRead are history: the number, within its section, of the block of the
\* stream the record is read from, the leading dword of that block, and
\* whether GameLoad has read a field behind that dword; lengths counts the
\* pixel-length dwords read, and maps and swaps tell whether a collision map
\* was read and whether the first and third bytes of a 4-byte group were
\* exchanged.
\* exists in a record that AssetManager::Add.. has just handed out
ExistsByDefault == TRUE

NewRecord(sec, lead) ==
    [exists |-> ExistsByDefault, ordinal |-> consumed[sec] + 1, lead |-> lead,
     bodyRead |-> FALSE, codes |-> <<>>, events |-> <<>>,
     width |-> Uninit, height |-> Uninit, images |-> 0,
     frameCount |-> Uninit, maps |-> FALSE, lengths |-> 0, swaps |-> FALSE]

LeadDwords == {0, 1}

\* "x->exists = false; continue;" on the record just added
StoreTombstone_Dropped(s, rec) == s

StoreTombstone(s, rec) == Append(s, [rec EXCEPT !.exists = FALSE])

\* The RMakeImage calls of one pass of a section's loop.
Submit(imgs) ==
    /\ RMakeImageCalls(imgs)
    /\ lastSubmit' = imgs

\* The end of one pass of a section's loop: "count--" and, after the last
\* record, the step to the next section.
Continue(sec, m, cap, records, nh, imgs, blocks) ==
    /\ store' = [store EXCEPT ![sec] = records]
    /\ consumed' = [consumed EXCEPT ![sec] = @ + blocks]
    /\ nHandles' = nh
    /\ dataLength' = cap
    /\ count' = count - 1
    /\ IF count = 1
       THEN /\ lpc' = NextSection(sec)
            /\ phase' = "head"
            /\ mem' = SectionEnd(sec, m)
       ELSE /\ mem' = m
            /\ UNCHANGED <<lpc, phase>>
    /\ Submit(imgs)
    /\ UNCHANGED <<loadResult, inflateFailed>>

\* A return from inside a section's loop, the heap being m after the
\* frees of that return path.
Stop(sec, r, m, cap, records, nh, imgs, blocks, inflateFails) ==
    /\ LoadReturn(r, m)
    /\ store' = [store EXCEPT ![sec] = records]
    /\ consumed' = [consumed EXCEPT ![sec] = @ + blocks]
    /\ nHandles' = nh
    /\ dataLength' = cap
    /\ inflateFailed' = (inflateFailed \/ inflateFails)
    /\ Submit(imgs)
    /\ UNCHANGED <<phase, count>>

\* "if (!InflateBlock(buffer, &pos, &data, ..)) { free(data); delete[]
\* buffer; return false; }" where InflateBlock has failed with result r
InflateFails(sec, r) ==
    Stop(sec, "false", Free(Free(r.mem, "data"), "buffer"), r.cap, store[sec],
         nHandles, <<>>, 0, TRUE)

\* ----------------------------------------------------------- extensions
FileCounts == {0, 1, 2}

\* "Read the files": the InflateBlock calls of one extension, up to the
\* first that fails.
RECURSIVE InflateFiles(_, _, _)
InflateFiles(r, outs, i) ==
    IF i > Len(outs) \/ ~r.ok
    THEN r
    ELSE InflateFiles(InflateBlock(r.mem, "buffer", "data", r.cap,
                                   outs[i].n, outs[i].fail, outs[i].exactEnd),
                      outs, i + 1)

\* One extension (Collision.hpp:514-611): the file list, the byte table
\* built in charTable, the decryption of the data block in place, and the
\* files.
LoadExtension ==
    /\ lpc = "extensions"
    /\ phase = "records"
    /\ ~aborted
    /\ \E fileCount \in FileCounts :
       \E outs \in [1..fileCount -> InflateCases(dataLength)] :
         LET rec == [NewRecord("extensions", 1) EXCEPT !.bodyRead = TRUE]
             records == Append(store["extensions"], rec)
             m1 == Use(Use(Use(mem, "buffer"), "charTable"), "buffer")
             r == InflateFiles(InflateResult(TRUE, m1, dataLength, 0), outs, 1)
         IN IF ~r.ok
            THEN \* free(data); delete[] buffer; free(charTable); return true;
                 Stop("extensions", "true",
                      Free(Free(Free(r.mem, "data"), "buffer"), "charTable"),
                      r.cap, records, nHandles, <<>>, 0, TRUE)
            ELSE Continue("extensions", IF fileCount > 0 THEN Use(r.mem, "data") ELSE r.mem,
                          r.cap, records, nHandles, <<>>, 0)
    /\ UNCHANGED <<declared, compileLog, budget>>
    /\ UNCHANGED <<cvars, xvars>>

\* ------------------------------------------------------------- triggers
\* the handle that CodeManager::Register.. or CodeActionManager::Read
\* gives out after nh handles
NewHandle(nh) == nh + 1

TriggerBody(rec, m, cap) ==
    Continue("triggers", m, cap,
             Append(store["triggers"], [rec EXCEPT !.codes = <<NewHandle(nHandles)>>]),
             nHandles + 1, <<>>, 1)

\* ------------------------------------------------------------ constants
LoadConstant ==
    /\ lpc = "constants"
    /\ phase = "records"
    /\ ~aborted
    /\ Continue("constants", Use(mem, "buffer"), dataLength,
                Append(store["constants"],
                       [NewRecord("constants", 1) EXCEPT !.bodyRead = TRUE]),
                nHandles, <<>>, 0)
    /\ UNCHANGED <<declared, compileLog, budget>>
    /\ UNCHANGED <<cvars, xvars>>

\* --------------------------------------- sounds, paths and include files
\* The body of a sound, a path or an include file: fields copied out of data.
PlainBody(sec, rec, m, cap) ==
    Continue(sec, m, cap, Append(store[sec], rec), nHandles, <<>>, 1)

\* -------------------------------------------------------------- scripts
ScriptBody(rec, m, cap) ==
    Continue("scripts", m, cap,
             Append(store["scripts"], [rec EXCEPT !.codes = <<NewHandle(nHandles)>>]),
             nHandles + 1, <<>>, 1)

\* -------------------------------------------------------------- sprites
\* widths and heights that the stream declares for an image
LoadDims == {0, 1}
FrameCounts == {0, 1, 2}

\* The pixel-data lengths tried for an image whose right length is n.
Lengths(n) == {n, n + 4}

FrameWidths == {1}
Frames(k) == [1..k -> [w : FrameWidths, h : LoadDims, len : Lengths(0) \cup Lengths(4)]]

\* "pixelDataLength != (frameW * frameH * 4)"
FrameMismatch(f) == f.len # f.w * f.h * 4

\* the first frame whose length check fails, or 0
FirstBadFrame(fs) ==
    IF \E i \in 1..Len(fs) : FrameMismatch(fs[i])
    THEN CHOOSE i \in 1..Len(fs) :
           /\ FrameMismatch(fs[i])
           /\ \A j \in 1..(i - 1) : ~FrameMismatch(fs[j])
    ELSE 0

SubmittedImage(kind, w, h, len) ==
    [kind |-> kind, w |-> w, h |-> h, originX |-> 0, originY |-> 0, len |-> len]

\* The frames 1..n of a sprite as RMakeImage calls.
FrameImages(fs, n) == [i \in 1..n |-> SubmittedImage("sprite", fs[i].w, fs[i].h, fs[i].len)]

\* "for (; dataPos < pixelDataEnd; dataPos += 4)": the passes of the loop
\* over len bytes
SwapGroups(len) == (len + 3) \div 4

\* the groups exchanged in the frames 1..n
RECURSIVE FrameSwaps(_, _)
FrameSwaps(fs, n) == IF n = 0 THEN 0 ELSE FrameSwaps(fs, n - 1) + SwapGroups(fs[n].len)

\* "sprite->collisionMaps = new CollisionMap[sprite->frameCount]" against
\* "CollisionMap* map = new CollisionMap()": the collision maps read
CollisionMaps(frameCount, separateCollision) ==
    IF separateCollision THEN frameCount ELSE 1

\* the else branch of "if (sprite->frameCount)"
NoFrames_Unsized(rec) == rec

NoFrames(rec) == [rec EXCEPT !.width = 1, !.height = 1]

SpriteBody(rec, m, cap) ==
    \E frameCount \in FrameCounts :
    \E fs \in Frames(frameCount) :
    \E separateCollision \in BOOLEAN :
      LET bad == FirstBadFrame(fs)
          read == IF bad = 0 THEN frameCount ELSE bad - 1
          counted == [rec EXCEPT !.frameCount = frameCount,
                                 !.lengths = IF bad = 0 THEN read ELSE read + 1,
                                 !.swaps = FrameSwaps(fs, read) > 0,
                                 !.maps = /\ bad = 0
                                          /\ frameCount > 0
                                          /\ CollisionMaps(frameCount, separateCollision) > 0]
          sized == IF read > 0
                   THEN [counted EXCEPT !.width = fs[1].w, !.height = fs[1].h, !.images = read]
                   ELSE IF frameCount = 0
                   THEN NoFrames(counted)
                   ELSE counted
          records == Append(store["sprites"], sized)
      IN IF bad # 0
         THEN Stop("sprites", "false", Free(Free(m, "data"), "buffer"), cap, records,
                   nHandles, FrameImages(fs, read), 1, FALSE)
         ELSE Continue("sprites", m, cap, records, nHandles, FrameImages(fs, read), 1)

\* ---------------------------------------------------------- backgrounds
\* "if (background->width > 0 && background->height > 0)"
HasPixels_WidthOnly(w, h) == w > 0

HasPixels(w, h) == w > 0 /\ h > 0

BackgroundBody(rec, m, cap) ==
    \E w \in LoadDims, h \in LoadDims :
      LET sized == [rec EXCEPT !.width = w, !.height = h]
      IN IF HasPixels(w, h)
         THEN \E len \in Lengths(w * h * 4) :
                Continue("backgrounds", m, cap,
                         Append(store["backgrounds"],
                                [sized EXCEPT !.images = 1, !.lengths = 1,
                                              !.swaps = SwapGroups(len) > 0]),
                         nHandles, <<SubmittedImage("background", w, h, len)>>, 1)
         ELSE Continue("backgrounds", m, cap, Append(store["backgrounds"], sized),
                       nHandles, <<>>, 1)

\* ---------------------------------------------------------------- fonts
FontBody(rec, m, cap) ==
    \E w \in FrameWidths, h \in LoadDims :
    \E dlen \in {w * h, (w * h) + 1} :
      IF w * h # dlen
      THEN Stop("fonts", "false", Free(Free(m, "data"), "buffer"), cap,
                Append(store["fonts"], rec), nHandles, <<>>, 1, FALSE)
      ELSE LET m1 == Malloc(m, "d")
               m2 == IF dlen > 0 THEN Use(Use(m1, "d"), "data") ELSE m1
           IN Continue("fonts", EndScope(Free(m2, "d"), "d"), cap,
                       Append(store["fonts"],
                              [rec EXCEPT !.width = w, !.height = h, !.images = 1]),
                       nHandles, <<SubmittedImage("font", w, h, dlen)>>, 1)

\* ------------------------------------------------- timelines and objects
\* std::map's operator[] followed by an assignment
Put(map, key, value) ==
    [k \in (DOMAIN map) \cup {key} |-> IF k = key THEN value ELSE map[k]]

\* the handles nh+1 .. nh+n
Handles(nh, n) == [i \in 1..n |-> nh + i]

\* The action lists of one record: each with its key, its actionCount and,
\* in failAt, the action at which CodeActionManager::Read fails (0: none).
ActionCounts == {1}
ActionLists(keys) ==
    {e \in [key : keys, actionCount : ActionCounts, failAt : {0} \cup ActionCounts] :
       e.failAt <= e.actionCount}

\* The loop over the action lists es[i..]: the map, the handles given out and
\* whether every Read returned true.  A timeline puts the list in its map
\* before it reads the actions (early), an object after it has read them.
RECURSIVE ReadActions(_, _, _, _, _)
ReadActions(es, i, map, nh, early) ==
    IF i > Len(es)
    THEN [ok |-> TRUE, map |-> map, nh |-> nh]
    ELSE IF es[i].failAt > 0
    THEN [ok |-> FALSE,
          map |-> IF early
                  THEN Put(map, es[i].key, Handles(nh, es[i].failAt - 1))
                  ELSE map,
          nh |-> nh + (es[i].failAt - 1)]
    ELSE ReadActions(es, i + 1, Put(map, es[i].key, Handles(nh, es[i].actionCount)),
                     nh + es[i].actionCount, early)

MomentCounts == {0, 1, 2}
MomentIndexes == {0}

TimelineBody(rec, m, cap) ==
    \E momentCount \in MomentCounts :
    \E ms \in [1..momentCount -> ActionLists(MomentIndexes)] :
      LET a == ReadActions(ms, 1, <<>>, nHandles, TRUE)
          records == Append(store["timelines"], [rec EXCEPT !.events = a.map])
      IN IF ~a.ok
         THEN Stop("timelines", "false", Free(Free(m, "data"), "buffer"), cap,
                   records, a.nh, <<>>, 1, FALSE)
         ELSE Continue("timelines", m, cap, records, a.nh, <<>>, 1)

EventCounts == {0, 1, 2}
\* the first and the last of the 12 event types, with one index each
EventKeys == {<<0, 0>>, <<11, 0>>}

\* The stream lists an object's events type by type.
EventLists(k) ==
    {es \in [1..k -> ActionLists(EventKeys)] :
       \A i \in 1..k : \A j \in 1..k : i < j => es[i].key[1] <= es[j].key[1]}

ObjectBody(rec, m, cap) ==
    \E eventCount \in EventCounts :
    \E es \in EventLists(eventCount) :
      LET a == ReadActions(es, 1, <<>>, nHandles, FALSE)
          records == Append(store["objects"], [rec EXCEPT !.events = a.map])
      IN IF ~a.ok
         THEN \* delete[] e.actions; free(data); delete[] buffer; return false;
              Stop("objects", "false", Free(Free(m, "data"), "buffer"), cap,
                   records, a.nh, <<>>, 1, FALSE)
         ELSE Continue("objects", m, cap, records, a.nh, <<>>, 1)

\* ---------------------------------------------------------------- rooms
InstanceCounts == {0, 1, 2}

\* creationCode, then the creation code of each instance
RoomBody(rec, m, cap) ==
    \E instanceCount \in InstanceCounts :
      Continue("rooms", m, cap,
               Append(store["rooms"],
                      [rec EXCEPT !.codes = Handles(nHandles, 1 + instanceCount)]),
               nHandles + 1 + instanceCount, <<>>, 1)

\* ------------------------------------------------- per-record sections
\* The statements after "x->exists = false; continue;" in the loop of sec.
RecordBody(sec, rec, m, cap) ==
    CASE sec = "triggers" -> TriggerBody(rec, m, cap)
      [] sec = "sprites" -> SpriteBody(rec, m, cap)
      [] sec = "backgrounds" -> BackgroundBody(rec, m, cap)
      [] sec = "scripts" -> ScriptBody(rec, m, cap)
      [] sec = "fonts" -> FontBody(rec, m, cap)
      [] sec = "timelines" -> TimelineBody(rec, m, cap)
      [] sec = "objects" -> ObjectBody(rec, m, cap)
      [] sec = "rooms" -> RoomBody(rec, m, cap)
      [] OTHER -> PlainBody(sec, rec, m, cap)

\* One pass of the loop of a per-record section: inflate the block, add the
\* record, and either mark it absent or read its body.
RecordBlock(sec) ==
    /\ lpc = sec
    /\ phase = "records"
    /\ ~aborted
    /\ \E c \in InflateCases(dataLength), lead \in LeadDwords :
         LET r == InflateBlock(mem, "buffer", "data", dataLength, c.n, c.fail, c.exactEnd)
             rec == NewRecord(sec, lead)
         IN IF ~r.ok
            THEN InflateFails(sec, r)
            ELSE IF lead = 0
            THEN Continue(sec, Use(r.mem, "data"), r.cap,
                          StoreTombstone(store[sec], rec), nHandles, <<>>, 1)
            ELSE RecordBody(sec, [rec EXCEPT !.bodyRead = TRUE], Use(r.mem, "data"), r.cap)
    /\ UNCHANGED <<declared, compileLog, budget>>
    /\ UNCHANGED <<cvars, xvars>>

LoadTrigger == RecordBlock("triggers")
LoadSound == RecordBlock("sounds")
LoadSprite == RecordBlock("sprites")
LoadBackground == RecordBlock("backgrounds")
LoadPath == RecordBlock("paths")
LoadScript == RecordBlock("scripts")
LoadFont == RecordBlock("fonts")
LoadTimeline == RecordBlock("timelines")
LoadObject == RecordBlock("objects")
LoadRoom == RecordBlock("rooms")
LoadIncludeFile == RecordBlock("includes")

\* ------------------------------------------- the sections after the rooms
\* A section read from the raw buffer alone, with no compressed block.
SkipSection(sec) ==
    /\ lpc = sec
    /\ ~aborted
    /\ lpc' = NextSection(sec)
    /\ mem' = Use(mem, "buffer")
    /\ UNCHANGED <<phase, loadResult, dataLength, count, declared, consumed, store,
                   nHandles, compileLog, inflateFailed, lastSubmit, budget>>
    /\ UNCHANGED <<rvars, cvars, xvars>>

\* "Last instance and tile ID placed" (Collision.hpp:1231-1234)
LoadLastIDs == SkipSection("lastids")

\* "Garbage?" (Collision.hpp:1303-1309)
LoadGarbage == SkipSection("garbage")

\* "Room order" (Collision.hpp:1311-1320)
LoadRoomOrder == SkipSection("roomorder")

\* The game information block (Collision.hpp:1279-1301).
LoadGameInfo ==
    /\ lpc = "gameinfo"
    /\ \E c \in InflateCases(dataLength) :
         LET r == InflateBlock(mem, "buffer", "data", dataLength, c.n, c.fail, c.exactEnd)
         IN IF ~r.ok
            THEN /\ FreeAndReturn("false", r.mem)
                 /\ inflateFailed' = TRUE
                 /\ dataLength' = r.cap
            ELSE /\ lpc' = NextSection("gameinfo")
                 /\ mem' = Use(r.mem, "data")
                 /\ dataLength' = r.cap
                 /\ UNCHANGED <<loadResult, inflateFailed>>
    /\ UNCHANGED <<phase, count, declared, consumed, store, nHandles,
                   compileLog, lastSubmit, budget>>
    /\ UNCHANGED <<rvars, cvars, xvars>>

\* --------------------------------------------------------- compile pass
RECURSIVE Concat(_, _)
Concat(seqs, i) == IF i = 0 THEN <<>> ELSE Concat(seqs, i - 1) \o seqs[i]

\* The keys of a std::map in the order its iteration visits them.
IndexBefore(a, b) == a < b
EventBefore(a, b) == a[1] < b[1] \/ (a[1] = b[1] /\ a[2] < b[2])

\* byEvent: the keys are <<event type, index>> pairs of an object; else they
\* are the moment indexes of a timeline.
Ordered(keys, byEvent) ==
    CHOOSE q \in [1..Cardinality(keys) -> keys] :
      \A i \in 1..Cardinality(keys) : \A j \in 1..Cardinality(keys) :
        i < j => IF byEvent THEN EventBefore(q[i], q[j]) ELSE IndexBefore(q[i], q[j])

\* The handles that the loop over one record's action lists compiles.
MapHandles(map, byEvent) ==
    LET keys == Ordered(DOMAIN map, byEvent)
    IN Concat([i \in 1..Len(keys) |-> map[keys[i]]], Len(keys))

\* "if (x->exists)" around the compile calls of a record
IfExists(rec, handles) == IF rec.exists THEN handles ELSE <<>>

ScriptHandles ==
    Concat([i \in 1..Len(store["scripts"]) |->
              IfExists(store["scripts"][i], store["scripts"][i].codes)],
           Len(store["scripts"]))

TimelineHandles ==
    Concat([i \in 1..Len(store["timelines"]) |->
              IfExists(store["timelines"][i],
                       MapHandles(store["timelines"][i].events, FALSE))],
           Len(store["timelines"]))

ObjectHandles ==
    Concat([i \in 1..Len(store["objects"]) |->
              IfExists(store["objects"][i],
                       MapHandles(store["objects"][i].events, TRUE))],
           Len(store["objects"]))

TriggerHandles ==
    Concat([i \in 1..Len(store["triggers"]) |->
              IfExists(store["triggers"][i], store["triggers"][i].codes)],
           Len(store["triggers"]))

\* a room's creation code only
RoomCodes_CreationOnly(rec) == SubSeq(rec.codes, 1, 1)

\* a room's creation code, then the creation code of each of its instances
RoomCodes(rec) == rec.codes

RoomHandles ==
    Concat([i \in 1..Len(store["rooms"]) |->
              IfExists(store["rooms"][i], RoomCodes(store["rooms"][i]))],
           Len(store["rooms"]))

\* The handles in the order of the five loops of the compile pass.
CompileOrder ==
    ScriptHandles \o TimelineHandles \o ObjectHandles \o TriggerHandles \o RoomHandles

\* The compile pass and the clean-up (Collision.hpp:1322-1417): the compile
\* calls up to the first that fails, which returns false; when none fails,
\* "free(data); delete[] buffer; return true;".
CompilePass ==
    /\ lpc = "compile"
    /\ \E failAt \in 0..Len(CompileOrder) :
         LET calls == IF failAt = 0 THEN Len(CompileOrder) ELSE failAt
         IN /\ compileLog' = compileLog \o
                             [i \in 1..calls |-> [handle |-> CompileOrder[i],
                                                  ok |-> i # failAt]]
            /\ FreeAndReturn(IF failAt = 0 THEN "true" ELSE "false", mem)
    /\ UNCHANGED <<phase, dataLength, count, declared, consumed, store,
                   nHandles, inflateFailed, lastSubmit, budget>>
    /\ UNCHANGED <<rvars, cvars, xvars>>

\* ------------------------------------------------------- specifications
InitCompile ==
    /\ RInit
    /\ CompileIdle
    /\ LoadIdle
    /\ HeaderIdle
    /\ RestIdle
    /\ _maxTextureSize \in TextureSizes
    /\ _maxTextures \in TextureUnits

SubmitAny == \E w \in Dims, h \in Dims, ox \in Origins, oy \in Origins : RMakeImage(w, h, ox, oy)

NextCompile ==
    \/ SubmitAny
    \/ CallCompile
    \/ _Compile

SpecCompile == InitCompile /\ [][NextCompile]_vars

InitRender ==
    /\ RInit
    /\ CompileIdle
    /\ LoadIdle
    /\ HeaderIdle
    /\ RestIdle
    /\ _maxTextureSize = 0
    /\ _maxTextures = 0

NextRender ==
    \/ SubmitAny
    \/ RMakeGameWindow

SpecRender == InitRender /\ [][NextRender]_vars

\* GameLoad on an arbitrary game file, after GameInit.
InitLoad ==
    /\ RInit
    /\ CompileIdle
    /\ LoadIdle
    /\ HeaderIdle
    /\ RestIdle
    /\ _maxTextureSize = 0
    /\ _maxTextures = 0

NextLoad ==
    \/ \E f \in LoadFiles : LoadOpen(f)
    \/ LoadSettings
    \/ LoadLoadingBar
    \/ LoadCustomImage
    \/ LoadPrelude
    \/ ReadCount
    \/ LoadExtension
    \/ LoadTrigger
    \/ LoadConstant
    \/ LoadSound
    \/ LoadSprite
    \/ LoadBackground
    \/ LoadPath
    \/ LoadScript
    \/ LoadFont
    \/ LoadTimeline
    \/ LoadObject
    \/ LoadRoom
    \/ LoadLastIDs
    \/ LoadIncludeFile
    \/ LoadGameInfo
    \/ LoadGarbage
    \/ LoadRoomOrder
    \/ CompilePass

SpecLoad == InitLoad /\ [][NextLoad]_vars

\* GameLoad's header code on files of every explored size, then the
\* settings block.
InitHeader ==
    /\ RInit
    /\ CompileIdle
    /\ LoadIdle
    /\ HeaderIdle
    /\ RestIdle
    /\ _maxTextureSize = 0
    /\ _maxTextures = 0

NextHeader ==
    \/ \E f \in HeaderFiles : LoadOpen(f)
    \/ LoadSettings

SpecHeader == InitHeader /\ [][NextHeader]_vars


\* main from its first statement to its return.
InitMain ==
    /\ RInit
    /\ CompileIdle
    /\ LoadIdle
    /\ HeaderIdle
    /\ MainIdle
    /\ DrawIdle
    /\ PureIdle
    /\ _maxTextureSize = 0
    /\ _maxTextures = 0

NextMain ==
    \/ MainInit
    \/ MainLoad
    \/ MainStart
    \/ MainFrame
    \/ MainWait

SpecMain == InitMain /\ [][NextMain]_vars


\* The images the drawing functions are explored on, as RMakeImage
\* registered them.
DrawnImages == <<Image(1, 2, 0, 0), Image(2, 2, 0, 0)>>

\* The renderer after RInit and the RMakeImage calls for DrawnImages.
InitDrawn ==
    LET rs == MakeImages([ai |-> <<>>, pi |-> <<>>, t |-> 0, wd |-> 0, px |-> 0],
                         DrawnImages, Len(DrawnImages))
    IN /\ _atlasImages = rs.ai
       /\ _preImages = rs.pi
       /\ _tallest = rs.t
       /\ _widest = rs.wd
       /\ _pixelCount = rs.px
       /\ _contextSet = FALSE
       /\ boundAtlas = -1
       /\ _atlases = [s \in 0..(NumAtlases - 1) |-> EmptyAtlas]
       /\ aborted = FALSE
       /\ windowReturns = <<>>
       /\ imagesAtWindow = Uninit
       /\ _maxTextureSize = 0
       /\ _maxTextures = 0
       /\ CompileIdle
       /\ LoadIdle
       /\ HeaderIdle
       /\ MainIdle
       /\ DrawIdle
       /\ PureIdle

\* RDrawPartialImage on arbitrary parts.
NextPartial ==
    \E ix \in 1..Len(DrawnImages), partX \in Samples32, partY \in Samples32,
       partW \in Samples32, partH \in Samples32 :
         RDrawPartialImage(ix, partX, partY, partW, partH)

SpecPartial == InitDrawn /\ [][NextPartial]_vars

\* Any interleaving of RStartFrame, RDrawImage and RRenderFrame.
NextDraw ==
    \/ RStartFrame
    \/ \E ix \in 1..Len(DrawnImages) : RDrawImage(ix)
    \/ RRenderFrame

SpecDraw == InitDrawn /\ [][NextDraw]_vars


\* InflateBlock on pairs of blocks.
InitInflate ==
    /\ RInit
    /\ CompileIdle
    /\ LoadIdle
    /\ HeaderIdle
    /\ RestIdle
    /\ _maxTextureSize = 0
    /\ _maxTextures = 0

NextInflate == InflateTwice

SpecInflate == InitInflate /\ [][NextInflate]_vars


\* DecryptData on encoded regions.
InitCipher ==
    /\ RInit
    /\ CompileIdle
    /\ LoadIdle
    /\ HeaderIdle
    /\ RestIdle
    /\ _maxTextureSize = 0
    /\ _maxTextures = 0

NextCipher == DecryptEncoded

SpecCipher == InitCipher /\ [][NextCipher]_vars



\* The byte table of an extension and the decryption of its data block.
InitExtension ==
    /\ RInit
    /\ CompileIdle
    /\ LoadIdle
    /\ HeaderIdle
    /\ RestIdle
    /\ _maxTextureSize = 0
    /\ _maxTextures = 0

NextExtension ==
    \/ ExtensionTable
    \/ ExtensionDecrypt

SpecExtension == InitExtension /\ [][NextExtension]_vars


\* Frames drawn and rendered with RRenderFrame taken one pass of its loop
\* at a time; nothing else runs while RRenderFrame does.
NextFrame ==
    \/ ~InFrame /\ RStartFrame
    \/ \E ix \in 1..Len(DrawnImages) : ~InFrame /\ RDrawImage(ix)
    \/ RRenderFrame_Enter
    \/ RRenderFrame_Pass
    \/ RRenderFrame_Return

SpecFrame == InitDrawn /\ [][NextFrame]_vars

\* RRenderFrame is not suspended for ever: a pass of its loop that can be
\* made is made, and so is its return.
SpecFrameRuns ==
    SpecFrame /\ WF_vars(RRenderFrame_Pass) /\ WF_vars(RRenderFrame_Return)


\* Decrypt81 on streams of bytes.
InitXored ==
    /\ RInit
    /\ CompileIdle
    /\ LoadIdle
    /\ HeaderIdle
    /\ RestIdle
    /\ _maxTextureSize = 0
    /\ _maxTextures = 0

NextXored == Decrypt81_Stream

SpecXored == InitXored /\ [][NextXored]_vars


\* The second pass of DecryptData on regions that start anywhere.
InitPartner ==
    /\ RInit
    /\ CompileIdle
    /\ LoadIdle
    /\ HeaderIdle
    /\ RestIdle
    /\ _maxTextureSize = 0
    /\ _maxTextures = 0

NextPartner == SecondPassPartners

SpecPartner == InitPartner /\ [][NextPartner]_vars


\* The decode buffer of GameLoad through successive InflateBlock calls, and
\* the bytes the records keep of it.
InitRetain ==
    /\ RInit
    /\ CompileIdle
    /\ LoadIdle
    /\ HeaderIdle
    /\ MainIdle
    /\ DrawIdle
    /\ inflated = [done |-> FALSE]
    /\ cipher = [done |-> FALSE]
    /\ extension = [pc |-> "idle"]
    /\ xored = [done |-> FALSE]
    /\ partner = [done |-> FALSE]
    /\ \E cap \in 1..MaxCapacity : retained = DataAllocated(cap)
    /\ _maxTextureSize = 0
    /\ _maxTextures = 0

NextRetain ==
    \/ InflateShared
    \/ KeepExtensionFile
    \/ KeepSound
    \/ KeepIncludeFile
    \/ KeepImage
    \/ KeepString

SpecRetain == InitRetain /\ [][NextRetain]_vars


\* ------------------------------------------------------------- claims
ImageIds == 1..Len(_atlasImages)

Oversize(i) ==
    \/ _atlasImages[i].w > _maxTextureSize
    \/ _atlasImages[i].h > _maxTextureSize

Assigned(i) ==
    /\ _atlasImages[i].atlasId # Uninit
    /\ _atlasImages[i].x # Uninit
    /\ _atlasImages[i].y # Uninit

ImagesOverlap(i, j) ==
    RectsOverlap(_atlasImages[i].x, _atlasImages[i].y, _atlasImages[i].w, _atlasImages[i].h,
                 _atlasImages[j].x, _atlasImages[j].y, _atlasImages[j].w, _atlasImages[j].h)

\* C1: when every submitted image is within the maximum texture size,
\* _Compile(0) returns false, or returns true with every image (a zero-area
\* one too) assigned an atlas and a position and no two images of one atlas
\* overlapping.
C1_PackAllOrFail ==
    (cpc = "returned" /\ \A i \in ImageIds : ~Oversize(i))
    => \/ compileResult = "false"
       \/ /\ compileResult = "true"
          /\ \A i \in ImageIds : Assigned(i)
          /\ \A i, j \in ImageIds :
               (i # j /\ _atlasImages[i].atlasId = _atlasImages[j].atlasId)
               => ~ImagesOverlap(i, j)

\* C2: once RMakeGameWindow has returned true, no call of RMakeImage adds
\* an image: every such call aborts.
C2_NoImageAfterWindow ==
    imagesAtWindow # Uninit => Len(_atlasImages) = imagesAtWindow

\* C3: when RMakeGameWindow has returned true the atlases have been
\* compiled exactly once, and a second call of RMakeGameWindow returns
\* false.
C3_CompiledOnceAtWindow ==
    /\ (Len(windowReturns) >= 1 /\ windowReturns[1]) => compileCalls = 1
    /\ Len(windowReturns) >= 2 => ~windowReturns[2]

C5_OversizeFails ==
    (\E i \in ImageIds : Oversize(i))
    => /\ \A i \in ImageIds : _atlasImages[i].atlasId = Uninit
       /\ slotsWritten = {}
       /\ cpc = "returned" => compileResult = "false"

\* C5's case: _Compile has returned for a list that holds an oversize image
\* and an image that an atlas could have taken.
C5_Witness ==
    /\ cpc = "returned"
    /\ \E i \in ImageIds : Oversize(i)
    /\ \E i \in ImageIds : ~Oversize(i) /\ Area(_atlasImages[i]) > 0

\* C6: once an InflateBlock call of GameLoad has failed, GameLoad has
\* returned false, with no section parsed after the failure.
C6_InflateFailureFailsLoad ==
    inflateFailed => (lpc = "done" /\ loadResult = "false")

\* C7: no transient buffer of GameLoad (buffer, data with the blocks that
\* InflateBlock puts in its place, loadingData, imageData, charTable, and the
\* buffers of InflateBlock itself) is leaked, freed twice or used after it
\* was freed, and none is still allocated when GameLoad has returned.
C7_BuffersReleasedOnce ==
    /\ mem.errs = {}
    /\ lpc = "done" => \A p \in PtrNames : mem.ptr[p] # "live"

\* C7's case: GameLoad has returned true after InflateBlock put a larger
\* block in the place of data and after charTable was allocated.
C7_Witness ==
    /\ lpc = "done"
    /\ loadResult = "true"
    /\ dataLength > ZLIB_BUF_START
    /\ mem.ptr["charTable"] = "freed"
    /\ mem.ptr["data"] = "freed"
    /\ mem.ptr["buffer"] = "freed"

\* The loop of section sec has run to its end.
SectionRead(sec) ==
    /\ declared[sec] # Uninit
    /\ \/ \E i \in 1..Len(Sections) : Sections[i] = lpc /\ i > SectionIndex(sec)
       \/ lpc = "done" /\ loadResult = "true"

\* C8: in every per-record section each block of the stream yields one
\* record, absent or present: the k-th record comes from the k-th block, a
\* record whose leading dword is zero has exists == false and no field read
\* from its body, and a section read to its end holds as many records as
\* its declared count.
C8_TombstonesKeepSlots ==
    \A sec \in RecordSections :
      /\ consumed[sec] = Len(store[sec])
      /\ \A k \in 1..Len(store[sec]) :
           /\ store[sec][k].ordinal = k
           /\ store[sec][k].lead = 0 =>
                /\ ~store[sec][k].exists
                /\ ~store[sec][k].bodyRead
                /\ store[sec][k].codes = <<>>
                /\ store[sec][k].events = <<>>
                /\ store[sec][k].images = 0
      /\ SectionRead(sec) => Len(store[sec]) = declared[sec]

\* C8's case: a load that has returned true with a section whose first
\* record is absent and whose second record is present.
C8_Witness ==
    /\ lpc = "done"
    /\ loadResult = "true"
    /\ \E sec \in RecordSections :
         /\ Len(store[sec]) = 2
         /\ store[sec][1].lead = 0
         /\ store[sec][2].lead # 0
         /\ store[sec][2].exists
         /\ store[sec][2].bodyRead

Range(f) == {f[x] : x \in DOMAIN f}

\* The code handles that a record holds: a script body, a trigger
\* condition, the actions of timeline moments and object events, room
\* creation code and the creation code of room instances.
RecordCodes(rec) ==
    Range(rec.codes) \cup UNION {Range(rec.events[k]) : k \in DOMAIN rec.events}

CodeSections == {"scripts", "triggers", "timelines", "objects", "rooms"}

\* The handles held by the records that are not absent.
RegisteredCodes ==
    UNION {UNION {IF store[sec][k].exists THEN RecordCodes(store[sec][k]) ELSE {} :
                    k \in 1..Len(store[sec])} :
             sec \in CodeSections}

Compiled(h) == \E i \in 1..Len(compileLog) : compileLog[i].handle = h /\ compileLog[i].ok

ImpliedLength(img) == IF img.kind = "font" THEN img.w * img.h ELSE img.w * img.h * 4

\* C10: every image that GameLoad hands to RMakeImage has a declared
\* pixel-data length equal to the size its declared dimensions imply.
C10_LengthMatchesDims ==
    \A i \in 1..Len(lastSubmit) : lastSubmit[i].len = ImpliedLength(lastSubmit[i])

\* C11: during GameLoad no read of the raw file buffer touches an offset at
\* or beyond the file size (the reads at offset 2,000,000 and in the scan
\* window from 3,800,004 included).
C11_NoReadOutsideFile == oob = {}

\* The file is too short, does not start with "MZ", or carries neither the
\* GM8.0 nor the GM8.1 fingerprint.
Rejected(f) ==
    \/ f.size < MinFileSize
    \/ ~f.mz
    \/ (~f.fp80 /\ f.hit81 = ScanSteps)

\* C12: given a file that is shorter than 0x1B bytes, or does not start
\* with "MZ", or holds neither fingerprint, GameLoad returns false without
\* allocating the decode buffer and without reading a section.
C12_RejectsWithoutParsing ==
    (lpc # "entry" /\ Rejected(file))
    => /\ lpc = "done"
       /\ loadResult = "false"
       /\ mem.ptr["data"] = "null"
       /\ dataLength = 0
       /\ \A sec \in CountedSections : declared[sec] = Uninit

\* C13: main executes GameFrame only after GameLoad and GameStart have both
\* returned true; when GameLoad (GameStart) returns false main calls
\* GameTerminate once and returns 2 (3) without a frame; and when main has
\* returned, after the frame loop or before it, GameTerminate has been
\* called exactly once, and never before the return.
C13_FramesOnlyAfterLoadAndStart ==
    /\ frames > 0 => (loaded = "true" /\ started = "true")
    /\ loaded = "false" => (mpc = "exit" /\ exitCode = 2 /\ frames = 0 /\ terminated = 1)
    /\ started = "false" => (mpc = "exit" /\ exitCode = 3 /\ frames = 0 /\ terminated = 1)
    /\ mpc = "exit" => terminated = 1
    /\ mpc # "exit" => (terminated = 0 /\ exitCode = Uninit)
    /\ (mpc = "exit" /\ started = "true") => (exitCode = 0 /\ frames > 0)

\* The frame loop has ended after several frames.
C13_Witness == mpc = "exit" /\ exitCode = 0 /\ frames >= 2 /\ terminated = 1

\* The image a draw command was made from.
ImageOf(cmd) == _atlasImages[cmd.imageIndex + 1]

\* C14: a call of RDrawPartialImage with partX >= the image's width or
\* partY >= the image's height appends no draw command and leaves the draw
\* command list as it was.
C14_OutsideAppendsNothing ==
    [][(lastCall'.fn = "RDrawPartialImage" /\ (lastCall'.xOut \/ lastCall'.yOut))
       => _drawCommands' = _drawCommands]_vars

\* RDrawPartialImage has returned from a call with partX inside the image
\* and partY at or beyond its height.
C14_Witness ==
    /\ lastCall.fn = "RDrawPartialImage"
    /\ lastCall.yOut
    /\ ~lastCall.xOut
    /\ ~aborted

\* C15: the source region of every appended command lies inside its image:
\* partX + partW <= width and partY + partH <= height, for the values the
\* command carries (partW <= width - partX says so without a sum that wraps).
C15_RegionInsideImage ==
    \A i \in 1..Len(_drawCommands) :
        LET cmd == _drawCommands[i]
            img == ImageOf(cmd)
        IN /\ Le32(cmd.partX, U32(img.w))
           /\ Le32(cmd.partW, Sub32(U32(img.w), cmd.partX))
           /\ Le32(cmd.partY, U32(img.h))
           /\ Le32(cmd.partH, Sub32(U32(img.h), cmd.partY))

\* The atlas id of the commands of batch k of the rendered frame.
BatchAtlas(k) == rendered.cmds[rendered.batches[k].drawn + 1].atlasId

\* C16: the batches of RRenderFrame are consecutive and their concatenation
\* is the command list in submission order (the first starts at the first
\* command, each next one where the one before ends, the last ends at the
\* last command, none is empty), the commands of a batch share one atlas
\* id, and a batch is maximal: the next batch has another atlas id.
C16_BatchesAreMaximalRuns ==
    rendered.done =>
        LET b == rendered.batches
            n == Len(rendered.cmds)
        IN /\ (n = 0) = (b = <<>>)
           /\ b # <<>> => (b[1].drawn = 0 /\ b[Len(b)].drawn + b[Len(b)].toDraw = n)
           /\ \A k \in 1..Len(b) :
                /\ b[k].toDraw >= 1
                /\ b[k].drawn + b[k].toDraw <= n
                /\ k < Len(b) => b[k + 1].drawn = b[k].drawn + b[k].toDraw
                /\ \A i \in (b[k].drawn + 1)..(b[k].drawn + b[k].toDraw) :
                     rendered.cmds[i].atlasId = BatchAtlas(k)
                /\ k < Len(b) => BatchAtlas(k + 1) # BatchAtlas(k)

\* A frame of three commands was rendered in two batches.
C16_Witness ==
    /\ rendered.done
    /\ Len(rendered.cmds) = 3
    /\ Len(rendered.batches) = 2

\* The atlas bound by the batch issued before batch k of the rendered
\* frame: <<id>>, or <<>> when no batch was issued before it.
BoundBefore(k) == IF k = 1 THEN rendered.before ELSE <<BatchAtlas(k - 1)>>

\* C17: RRenderFrame binds an atlas for a batch if and only if the batch's
\* atlas id differs from the atlas bound by the batch issued before it
\* (none before the first batch, the last one of the previous frame at the
\* start of a frame); after a frame with commands boundAtlas is the atlas id
\* of the last command.
C17_RebindsIffAtlasChanges ==
    rendered.done =>
        /\ \A k \in 1..Len(rendered.batches) :
             rendered.batches[k].bind = (BoundBefore(k) # <<BatchAtlas(k)>>)
        /\ rendered.cmds # <<>> =>
             rendered.after = rendered.cmds[Len(rendered.cmds)].atlasId

\* C18: after RStartFrame the draw command list is empty; the commands a
\* RRenderFrame goes through are those appended since the latest
\* RStartFrame; and RStartFrame clears with the outside-room colour before
\* it clears with the room background colour.
C18_StartFrameResets ==
    /\ lastCall.fn = "RStartFrame" => _drawCommands = <<>>
    /\ rendered.done => rendered.cmds = rendered.since
    /\ lastCall.fn = "RStartFrame" =>
         \E i \in 1..Len(backend), j \in 1..Len(backend) :
            /\ i < j
            /\ backend[i] = [op |-> "g2dClear", colour |-> "_colourOutsideRoom"]
            /\ backend[j] = [op |-> "g2dClear", colour |-> "_roomBGColour"]
            /\ \A k \in 1..Len(backend) :
                 backend[k].op = "g2dClear" => k \in {i, j}

\* RStartFrame has returned after a frame with commands was rendered.
C18_Witness ==
    /\ lastCall.fn = "RStartFrame"
    /\ issued # <<>>
    /\ backend # <<>>

\* C19: a successful InflateBlock leaves in the output buffer exactly the
\* decompressed data with its exact size, whatever the capacity (at least
\* one byte) and the contents of the buffer were, and moves the cursor past
\* the 4-byte length and the compressed bytes; two calls that share one
\* buffer report the same bytes as two calls with a buffer each.
C19_InflateExact ==
    inflated.done =>
        /\ inflated.shared = inflated.plain
        /\ inflated.outSize = <<Len(inflated.plain[1]), Len(inflated.plain[2])>>
        /\ inflated.bufferSize[1] >= inflated.outSize[1]
        /\ inflated.bufferSize[2] >= inflated.outSize[2]
        /\ inflated.pos[1] = 4 + inflated.len[1]
        /\ inflated.pos[2] = inflated.pos[1] + 4 + inflated.len[2]
        /\ inflated.shared = inflated.dedicated

\* The first block outgrew the buffer and the second one, shorter and not
\* empty, was inflated into the buffer the first call left.
C19_Witness ==
    /\ inflated.done
    /\ Len(inflated.plain[1]) > inflated.capacity
    /\ inflated.bufferSize[1] = Len(inflated.plain[1])
    /\ Len(inflated.plain[2]) \in 1..(Len(inflated.plain[1]) - 1)

\* C20: DecryptData restores the plaintext from the output of the matching
\* encoder, for every swap table and region explored, and leaves the cursor
\* at the start of the region.
C20_DecryptRestoresPlaintext ==
    cipher.done =>
        /\ cipher.decoded = cipher.plain
        /\ cipher.pos = 8 + (4 * cipher.garbage[1]) + TableSize
                          + (4 * cipher.garbage[2]) + 4

\* A region of three bytes that the encoder changed was decrypted with a
\* table that moves bytes in the second pass.
C20_Witness ==
    /\ cipher.done
    /\ Len(cipher.plain) = 3
    /\ cipher.table = 3
    /\ cipher.encoded # cipher.plain
    /\ cipher.plain[1] # cipher.plain[3]

\* The record that the step has appended to the section sec, if it is one
\* whose body was read.
Added(sec) ==
    /\ Len(store'[sec]) = Len(store[sec]) + 1
    /\ store'[sec][Len(store'[sec])].bodyRead

Newest(sec) == store'[sec][Len(store'[sec])]

\* C21: a present sprite record whose frame count is 0 is loaded without
\* error, with width 1 and height 1, no frame image submitted to the atlas
\* compiler and no collision map read.
C21_NoFramesSpriteIsOneByOne ==
    [][(Added("sprites") /\ Newest("sprites").frameCount = 0) =>
         /\ Newest("sprites").exists
         /\ Newest("sprites").width = 1
         /\ Newest("sprites").height = 1
         /\ Newest("sprites").images = 0
         /\ Newest("sprites").lengths = 0
         /\ ~Newest("sprites").maps
         /\ lastSubmit' = <<>>
         /\ loadResult' = "none"
         /\ lpc' # "done"]_vars

\* C21's case: GameLoad has returned true for a game with a present sprite
\* that has no frames and a sprite with frames and collision maps.
C21_Witness ==
    /\ lpc = "done"
    /\ loadResult = "true"
    /\ \E k \in 1..Len(store["sprites"]) :
         /\ store["sprites"][k].bodyRead
         /\ store["sprites"][k].frameCount = 0
         /\ store["sprites"][k].width = 1
    /\ \E k \in 1..Len(store["sprites"]) : store["sprites"][k].maps

\* C22: a present background record with width 0 or height 0 is loaded with
\* its dimensions recorded, while no pixel-length dword is read, no byte
\* swap is performed and RMakeImage is not called for it.
C22_EmptyBackgroundSkipsPixels ==
    [][(/\ Added("backgrounds")
        /\ \/ Newest("backgrounds").width = 0
           \/ Newest("backgrounds").height = 0) =>
         /\ Newest("backgrounds").exists
         /\ Newest("backgrounds").width \in LoadDims
         /\ Newest("backgrounds").height \in LoadDims
         /\ Newest("backgrounds").lengths = 0
         /\ ~Newest("backgrounds").swaps
         /\ Newest("backgrounds").images = 0
         /\ lastSubmit' = <<>>
         /\ loadResult' = "none"]_vars

\* C22's case: GameLoad has returned true for a game with a background of
\* width 1 and height 0 and a background with pixels.
C22_Witness ==
    /\ lpc = "done"
    /\ loadResult = "true"
    /\ \E k \in 1..Len(store["backgrounds"]) :
         /\ store["backgrounds"][k].bodyRead
         /\ store["backgrounds"][k].width = 1
         /\ store["backgrounds"][k].height = 0
    /\ \E k \in 1..Len(store["backgrounds"]) : store["backgrounds"][k].swaps

\* The asset sections and the compile pass, which GameLoad is in after the
\* paragraph cipher has been undone.
InSections(pc) == \E i \in 1..Len(Sections) : Sections[i] = pc

\* The order alone: no section is entered but from the one before it, the
\* extensions from the end of the prelude.
SectionsNeverOutOfOrder ==
    [][(lpc' # lpc /\ InSections(lpc')) =>
         IF lpc' = Sections[1]
         THEN lpc = "prelude"
         ELSE InSections(lpc) /\ lpc' = NextSection(lpc)]_vars

\* C23: a successful GameLoad processes the asset sections in exactly this
\* order, each after the previous one has finished: extensions, triggers,
\* constants, sounds, sprites, backgrounds, paths, scripts, fonts,
\* timelines, objects, rooms, last-used IDs, include files, game info,
\* garbage, room order; the compile pass starts only after the room order
\* has been read, and a load that returns true has gone through all of them.
C23_SectionsInOrder ==
    /\ SectionsNeverOutOfOrder
    /\ [][(lpc' = "compile" /\ lpc # "compile") => lpc = "roomorder"]_vars
    /\ [][(lpc # "done" /\ lpc' = "done" /\ loadResult' = "true") =>
            lpc = "compile"]_vars

\* The code that looks for the fingerprints has run on the file and has not
\* stopped the process: the file was opened and read, is at least
\* MinFileSize bytes long and starts with "MZ".
Detected ==
    /\ lpc \notin {"entry", "crashed"}
    /\ mem.ptr["buffer"] # "null"
    /\ file.size >= MinFileSize
    /\ file.mz

\* The steps k of the scan window at which the file holds the GM8.1
\* fingerprint: the first half in the dword k, the second in the dword
\* right after it.
Fingerprints81(f) ==
    {k \in 0..(ScanSteps - 1) : k \in f.first /\ (k + 1) \in f.second}

\* C24: the version is 8.0 exactly when the dword at offset 2,000,000
\* equals 1234321; otherwise it is 8.1 exactly when for some k in 0..1023
\* the dword at 3,800,004 + 4k carries the first half of the fingerprint
\* and the dword right after it the second, the scan stopping at the least
\* such k; Decrypt81 is called exactly once for 8.1 and never for 8.0.
C24_VersionFromFingerprints ==
    Detected =>
      /\ version = 800 <=> file.fp80
      /\ version = 810 <=> (~file.fp80 /\ Fingerprints81(file) # {})
      /\ version = 810 =>
           /\ file.hit81 \in Fingerprints81(file)
           /\ \A k \in Fingerprints81(file) : file.hit81 <= k
      /\ decrypts = IF version = 810 THEN 1 ELSE 0

\* The byte at offset k of the raw buffer before and after the decryption
\* of the data block.
Before(k) == extension.buffer[k + 1]
After(k) == extension.decrypted[k + 1]
Offsets == 0..(Len(extension.buffer) - 1)

\* C25 as stated: every byte of the data block after the 4-byte seed dword
\* and up to the end of the declared region is replaced in place by
\* table[0x100 + byte], and no byte outside that region is modified.
C25_SubstitutesAfterSeed ==
    extension.pc = "done" =>
      \A k \in Offsets :
        After(k) = IF extension.dataPos <= k /\ k < extension.pos
                   THEN Entry(extension.charTable, 256 + Before(k))
                   ELSE Before(k)

\* C25, amended: the first byte after the seed dword is left as it is;
\* every byte from the second byte after the seed dword up to the end of
\* the declared region is replaced in place by table[0x100 + byte], and no
\* other byte is modified.  The seed the table is built from is the dword
\* at the start of the region.
C25_SubstitutesFromSecondByte ==
    extension.pc = "done" =>
      /\ extension.seedRead = extension.dword
      /\ \A k \in Offsets :
           After(k) = IF extension.dataPos + 1 <= k /\ k < extension.pos
                      THEN Entry(extension.charTable, 256 + Before(k))
                      ELSE Before(k)

\* C25's case: a data block of three bytes behind the seed, all of them
\* bytes that the table maps to another byte, between bytes that belong to
\* something else.
C25_Witness ==
    /\ extension.pc = "done"
    /\ extension.pos = extension.dataPos + 3
    /\ extension.dataPos > 8
    /\ extension.pos < Len(extension.buffer)
    /\ \A k \in extension.dataPos..(extension.pos - 1) :
         Entry(extension.charTable, 256 + Before(k)) # Before(k)
    /\ After(extension.dataPos) = Before(extension.dataPos)
    /\ After(extension.dataPos + 1) # Before(extension.dataPos + 1)

\* C29: for every seed dword the first loop over the table only swaps
\* entries at the indexes 1..255, and the second half of the table is a
\* bijection on the byte values 0..255 that inverts the permutation the
\* first half holds at 1..255 and maps 0 to 0.
C29_TableIsInverse ==
    extension.pc # "idle" =>
      /\ \A ax \in extension.swapped : 1 <= ax /\ ax + 1 <= 255
      /\ Entry(extension.first, 0) = 0
      /\ \A i \in 256..(CharTableSize - 1) : Entry(extension.first, i) = i - 256
      /\ {Entry(extension.first, i) : i \in 1..255} = 1..255
      /\ \A i \in 0..255 : Entry(extension.charTable, i) = Entry(extension.first, i)
      /\ {Entry(extension.charTable, 256 + v) : v \in 0..255} = 0..255
      /\ \A i \in 1..255 :
           Entry(extension.charTable, 256 + Entry(extension.first, i)) = i
      /\ Entry(extension.charTable, 256) = 0

\* C29's case: a seed dword that leaves seed1 and seed2 below zero, and a
\* table whose first loop has moved entries.
C29_Witness ==
    /\ extension.pc = "table"
    /\ extension.dword < 0
    /\ extension.seeds.seed1 < 0
    /\ extension.seeds.seed2 < 0
    /\ \E i \in 1..255 : Entry(extension.first, i) # i

\* C30: RRenderFrame terminates for every draw command list: each pass of
\* its outer loop consumes at least one command (drawn grows and stays
\* within the list), a call that is inside the loop returns, and from its
\* entry to its return the draw command list is not changed.
C30_RenderFrameTerminates ==
    /\ [][InFrame =>
            /\ _drawCommands' = _drawCommands
            /\ InFrame' => /\ rendered'.toDraw >= 1
                           /\ rendered'.drawn = rendered.drawn + rendered'.toDraw
                           /\ rendered'.drawn <= Len(_drawCommands)
            /\ Returned' => /\ rendered.drawn = Len(_drawCommands)
                            /\ _drawCommands' = rendered.cmds]_vars
    /\ InFrame ~> Returned

\* C30's case: RRenderFrame has returned from a list of three commands that
\* took two passes, the second of them over one command.
C30_Witness ==
    /\ Returned
    /\ Len(rendered.cmds) = 3
    /\ rendered.drawn = 3
    /\ rendered.toDraw = 1

\* The offset at which C26 has the encrypted part begin, the number of
\* complete dwords from there to the end of the stream, and the mask of
\* the dword number j (from 0) as GetXorMask hands them out one after the
\* other.
Start81 == xored.P + 8 + (xored.seed2[2] % 256) + 10
Groups81 == IF Start81 <= xored.length THEN (xored.length - Start81) \div 4 ELSE 0
RECURSIVE MaskAt(_, _, _)
MaskAt(seed1, seed2, j) ==
    LET g == GetXorMask(seed1, seed2)
    IN IF j = 0 THEN g.mask ELSE MaskAt(g.seed1, g.seed2, j - 1)

\* C26: Decrypt81 entered with the cursor at P leaves every byte at an
\* offset below P + 8 + (seed2 & 0xFF) + 0xA unchanged, replaces each complete
\* 4-byte group from that offset on by its exclusive or with the next mask
\* of GetXorMask, and leaves the final (length - start) mod 4 bytes of the
\* stream unchanged.
C26_XorsWholeDwordsOnly ==
    xored.done =>
      /\ Len(xored.decrypted) = xored.length
      /\ \A k \in 0..(xored.length - 1) :
           (k < Start81 \/ k >= Start81 + (4 * Groups81)) =>
              xored.decrypted[k + 1] = xored.stream[k + 1]
      /\ \A j \in 0..(Groups81 - 1) :
           LET m == MaskAt(xored.seed1, xored.seed2, j)
               d == DwordAt(xored.stream, Start81 + (4 * j))
           IN DwordAt(xored.decrypted, Start81 + (4 * j))
                = <<Xor(d[1], m[1], 16), Xor(d[2], m[2], 16)>>

\* C26's case: a stream with the cursor behind its start, a seed2 with a
\* low byte that is not 0, two encrypted dwords that the masks change and
\* three bytes behind them.
C26_Witness ==
    /\ xored.done
    /\ xored.P = 1
    /\ xored.seed2[2] % 256 = 3
    /\ xored.length = Start81 + 11
    /\ DwordAt(xored.decrypted, Start81) # DwordAt(xored.stream, Start81)
    /\ DwordAt(xored.decrypted, Start81 + 4) # DwordAt(xored.stream, Start81 + 4)
    /\ MaskAt(xored.seed1, xored.seed2, 0) # MaskAt(xored.seed1, xored.seed2, 1)

\* C27: in the second pass of DecryptData the partner index b = i -
\* swapTable[(i - start) & 0xFF], computed in 32-bit unsigned arithmetic,
\* lies in [start, i] after clamping, for every region start (including
\* start < 255) and length, so the pass swaps only bytes of the region
\* [start, start + len).
C27_PartnerInsideRegion ==
    partner.done =>
      \A j \in 1..(partner.len - 1) :
        /\ Le32(partner.start, partner.partners[j])
        /\ Le32(partner.partners[j], Add32(partner.start, U32(j)))

\* The bytes a kept reference points at, as the heap holds them now.
Held(rec) ==
    SubSeq(retained.heap[rec.ref.block].bytes, rec.ref.off + 1,
           rec.ref.off + rec.ref.len)

\* C28: nothing the loader keeps is a reference into the decode buffer
\* past the next InflateBlock call: every byte range it retains lies in a
\* block that never was the decode buffer, that is still allocated, and
\* that holds the bytes as they were when they were kept, whatever
\* InflateBlock has done to the buffer since.
C28_KeptBytesAreCopies ==
    \A k \in 1..Len(retained.kept) :
        LET rec == retained.kept[k]
        IN /\ rec.ref.block \notin retained.buffers
           /\ retained.heap[rec.ref.block].live
           /\ Held(rec) = rec.bytes

\* C28's case: two bytes were kept after the first InflateBlock call, the
\* second call has freed the block they were taken from and made a new
\* one the decode buffer, and bytes of that one were kept as well.
C28_Witness ==
    /\ Len(retained.kept) = 2
    /\ retained.calls = 2
    /\ retained.kept[1].call = 1
    /\ ~retained.heap[retained.kept[1].src].live
    /\ retained.kept[2].src = retained.data
    /\ Len(retained.kept[1].bytes) = 2

====
